---- MODULE Spec2Model ----
(***************************************************************************)
(* A model of kibi's rendering and input-decoding core: Row::update and    *)
(* Row::update_syntax (src/src/row.rs), the forward propagation of the     *)
(* highlight state in Editor::update_row / update_all_rows and the key     *)
(* decoder Editor::loop_until_keypress (src/src/editor.rs).                *)
(*                                                                         *)
(* Bytes are integers 0..255, a string is a sequence of bytes, and every   *)
(* index of the source (0-based) is written i here and read at i + 1.      *)
(***************************************************************************)
EXTENDS Integers, Sequences, FiniteSets

\* ------------------------------------------------------------------ bounds
\* The longest line (in bytes) of the row specifications.
MaxLen == 4
\* The largest tab width (config.tab_stop) tried.
MaxTab == 3
\* The largest number of rows of the document of the editor specification.
MaxRows == 3
\* The longest line (in bytes) of the editor specification.
MaxEdLen == 1
\* The most bytes one read() of the terminal hands to the BufReader.
MaxChunk == 2
\* The largest column offset Row::draw is called with.
MaxOffset == 1
\* The most bytes the document of the run specification grows to.
MaxDocBytes == 2

VARIABLES
    rows,       \* Editor.rows: the sequence of Row records
    syntax,     \* Editor.syntax: the syntax configuration in use
    tab_stop,   \* Editor.config.tab_stop
    arg_state,  \* the hl_state argument of the latest Row::update of rows[1]
    ret,        \* the value the latest Row::update of rows[1] returned
    last_upd,   \* the latest update_row call: its y and the rows it updated
    size,       \* the latest get_char_size call on rows[1]: its rx and result
    drawn,      \* the Row::draw call on rows[1]: its arguments and its buffer
    pc,         \* loop_until_keypress: the read the decoder is about to do
    seq,        \* the results of the reads of the current (or last) decode
    buffered,   \* the bytes left in the BufReader of this call (once it has
                \* returned: the bytes its BufReader was dropped with)
    key,        \* the key loop_until_keypress returned, or NoKey
    reg_c,      \* the local c of the numeric-parameter arm
    reg_d,      \* the local d of the numeric-parameter arm
    closed,     \* the terminal has reached its end of stream
    prev,       \* history: the latest decode of ESC [ c d with (c, d) in ParamTails
    keyboard,   \* the bytes the terminal can send
    cursor,     \* Editor.cursor: x (a byte offset in the row) and y
    dirty,      \* Editor.dirty
    n_bytes,    \* Editor.n_bytes
    quit_times, \* Editor.quit_times
    loop_state, \* update_syntax: its local hl_state while 'syntax_loop runs
    copied_row, \* Editor.copied_row
    prompt_mode, \* Editor.prompt_mode
    file_name,  \* Editor.file_name.is_some()
    disk,       \* the bytes of the file on disk, and what wrote and read them
    quit_conf,  \* Editor.config.quit_times
    screen_rows, \* Editor.screen_rows
    wsc,        \* the static WSC: the window size has changed
    window      \* the number of rows of the terminal window

vars == <<rows, syntax, tab_stop, arg_state, ret, last_upd, size, drawn,
          pc, seq, buffered, key, reg_c, reg_d, closed, prev,
          keyboard, cursor, dirty, n_bytes, quit_times, loop_state,
          copied_row, prompt_mode, file_name, disk, quit_conf, screen_rows,
          wsc, window>>

\* ------------------------------------------------------------- sequences
Rep(x, n) == [k \in 1..n |-> x]

Strings(alphabet, n) == UNION {[1..m -> alphabet] : m \in 0..n}

\* ------------------------------------------------------- HlState, HlType
Normal == [t |-> "Normal", q |-> 0]
MultiLineComment == [t |-> "MultiLineComment", q |-> 0]
MultiLineString == [t |-> "MultiLineString", q |-> 0]
StringState(quote) == [t |-> "String", q |-> quote]
\* No Row::update has been called yet (arg_state, ret).
Unset == [t |-> "Unset", q |-> 0]

HlType == {"Normal", "Number", "Match", "String", "MlString", "Comment",
           "MlComment", "Keyword1", "Keyword2"}

\* ------------------------------------------------- String::from_utf8_lossy
REPLACEMENT_CHARACTER == 65533

utf8_char_width(b) ==
    IF b < 128 THEN 1
    ELSE IF b >= 194 /\ b <= 223 THEN 2
    ELSE IF b >= 224 /\ b <= 239 THEN 3
    ELSE IF b >= 240 /\ b <= 244 THEN 4
    ELSE 0

InRange(bytes, i, lo, hi) ==
    i <= Len(bytes) /\ bytes[i] >= lo /\ bytes[i] <= hi

\* The character decoded at position i (1-based) of bytes and the number n of
\* bytes it takes: a maximal ill-formed subsequence decodes to one U+FFFD.
next_char(bytes, i) ==
    LET b == bytes[i]
        w == utf8_char_width(b)
        bad(n) == [cp |-> REPLACEMENT_CHARACTER, n |-> n]
        c(k) == bytes[i + k] - 128
        ok3 == \/ b = 224 /\ InRange(bytes, i + 1, 160, 191)
               \/ b >= 225 /\ b <= 236 /\ InRange(bytes, i + 1, 128, 191)
               \/ b = 237 /\ InRange(bytes, i + 1, 128, 159)
               \/ b >= 238 /\ InRange(bytes, i + 1, 128, 191)
        ok4 == \/ b = 240 /\ InRange(bytes, i + 1, 144, 191)
               \/ b >= 241 /\ b <= 243 /\ InRange(bytes, i + 1, 128, 191)
               \/ b = 244 /\ InRange(bytes, i + 1, 128, 143)
    IN  CASE w = 1 -> [cp |-> b, n |-> 1]
          [] w = 2 -> IF InRange(bytes, i + 1, 128, 191)
                      THEN [cp |-> ((b - 192) * 64) + c(1), n |-> 2]
                      ELSE bad(1)
          [] w = 3 -> IF ~ok3 THEN bad(1)
                      ELSE IF ~InRange(bytes, i + 2, 128, 191) THEN bad(2)
                      ELSE [cp |-> ((b - 224) * 4096) + (c(1) * 64) + c(2), n |-> 3]
          [] w = 4 -> IF ~ok4 THEN bad(1)
                      ELSE IF ~InRange(bytes, i + 2, 128, 191) THEN bad(2)
                      ELSE IF ~InRange(bytes, i + 3, 128, 191) THEN bad(3)
                      ELSE [cp |-> ((b - 240) * 262144) + (c(1) * 4096)
                                   + (c(2) * 64) + c(3), n |-> 4]
          [] OTHER -> bad(1)

len_utf8(cp) ==
    IF cp < 128 THEN 1 ELSE IF cp < 2048 THEN 2 ELSE IF cp < 65536 THEN 3 ELSE 4

\* The UTF-8 encoding of a char, as String::push_str appends it to render.
encode_utf8(cp) ==
    CASE cp < 128 -> <<cp>>
      [] cp >= 128 /\ cp < 2048 -> <<192 + (cp \div 64), 128 + (cp % 64)>>
      [] cp >= 2048 /\ cp < 65536 ->
            <<224 + (cp \div 4096), 128 + ((cp \div 64) % 64), 128 + (cp % 64)>>
      [] OTHER -> <<240 + (cp \div 262144), 128 + ((cp \div 4096) % 64),
                    128 + ((cp \div 64) % 64), 128 + (cp % 64)>>

\* c.width().unwrap_or(1): the rows of the unicode-width table the alphabets
\* of this model reach. Control characters have no width (None, so 1),
\* combining diacritical marks U+0300..U+036F have width 0, kana and CJK
\* ideographs U+3041..U+4DBF and U+4E00..U+9FFF have width 2.
width_or_1(cp) ==
    IF cp >= 768 /\ cp <= 879 THEN 0
    ELSE IF (cp >= 12353 /\ cp <= 19903) \/ (cp >= 19968 /\ cp <= 40959) THEN 2
    ELSE 1

\* ------------------------------------------------------------ Row::update
Row_new(chars) ==
    [chars |-> chars, render |-> <<>>, cx2rx |-> <<0>>, rx2cx |-> <<>>,
     hl |-> <<>>, hl_state |-> Normal,
     match_segment |-> [some |-> FALSE, start |-> 0, end |-> 0]]

n_rend_chars(cp, rx, tab) ==
    IF cp = 9 THEN tab - (rx % tab) ELSE width_or_1(cp)

next_rx_forgets_column(rx, n) == n

\* rx + n_rend_chars of the tuple assignment that ends the loop body.
next_rx(rx, n) == rx + n

RECURSIVE render_loop(_, _, _, _)
\* The for loop of Row::update from byte i (1-based) of chars on.
render_loop(chars, i, tab, acc) ==
    IF i > Len(chars) THEN acc
    ELSE LET ch == next_char(chars, i)
             n == n_rend_chars(ch.cp, acc.rx, tab)
         IN  render_loop(chars, i + ch.n, tab,
                [render |-> acc.render \o
                     (IF ch.cp = 9 THEN Rep(32, n) ELSE encode_utf8(ch.cp)),
                 cx2rx |-> acc.cx2rx \o Rep(acc.rx, len_utf8(ch.cp)),
                 rx2cx |-> acc.rx2cx \o Rep(acc.cx, n),
                 rx |-> next_rx(acc.rx, n),
                 cx |-> acc.cx + len_utf8(ch.cp)])

\* render, cx2rx and rx2cx as Row::update leaves them, the sentinels pushed.
render_pass(chars, tab) ==
    LET acc == render_loop(chars, 1, tab,
                  [render |-> <<>>, cx2rx |-> <<>>, rx2cx |-> <<>>,
                   rx |-> 0, cx |-> 0])
    IN  [render |-> acc.render,
         cx2rx |-> Append(acc.cx2rx, acc.rx),
         rx2cx |-> Append(acc.rx2cx, acc.cx)]

RECURSIVE first_positive(_, _, _)
\* .skip(k - 1).map(|cx| cx - cx0).find(|d| *d > 0).unwrap_or(1) on rx2cx.
first_positive(rx2cx, k, cx0) ==
    IF k > Len(rx2cx) THEN 1
    ELSE IF rx2cx[k] - cx0 > 0 THEN rx2cx[k] - cx0
    ELSE first_positive(rx2cx, k + 1, cx0)

\* Row::get_char_size for 0 <= rx < rx2cx.len().
get_char_size(row, rx) == first_positive(row.rx2cx, rx + 2, row.rx2cx[rx + 1])

\* ------------------------------------------------------------- Row::draw
\* What draw writes to the buffer: a character, or the escape sequence
\* ESC [ v m (the v of ESC [ m is 0).
Ch(cp) == [t |-> "char", v |-> cp]
Sgr(v) == [t |-> "sgr", v |-> v]
RESET_FMT == Sgr(0)
REVERSE_VIDEO == Sgr(7)

\* The discriminant of the HlType.
discriminant(hl_type) ==
    CASE hl_type = "Normal" -> 39 [] hl_type = "Number" -> 31
      [] hl_type = "Match" -> 46 [] hl_type = "String" -> 32
      [] hl_type = "MlString" -> 132 [] hl_type = "Comment" -> 34
      [] hl_type = "MlComment" -> 134 [] hl_type = "Keyword1" -> 33
      [] hl_type = "Keyword2" -> 35

\* impl Display for HlType.
to_string(hl_type) == Sgr(discriminant(hl_type) % 100)

is_ascii_control(c) == c <= 31 \/ c = 127

rendered_char_below_32(c) == IF c <= 31 THEN 64 + c ELSE 63

\* '@' + c for the control characters up to 26, '?' for the others.
rendered_char(c) == IF c <= 26 THEN 64 + c ELSE 63

\* Option<Range<usize>>: None, or Some(start..end).
NoSegment == [some |-> FALSE, start |-> 0, end |-> 0]
Segment(a, b) == [some |-> TRUE, start |-> a, end |-> b]
contains(segment, rx) == segment.start <= rx /\ rx < segment.end

RECURSIVE code_points(_, _)
\* The chars() of the bytes from byte i (1-based) on.
code_points(bytes, i) ==
    IF i > Len(bytes) THEN <<>>
    ELSE <<next_char(bytes, i).cp>> \o
         code_points(bytes, i + next_char(bytes, i).n)

RECURSIVE width_sum(_, _)
\* The sum of width().unwrap_or(1) over the first n characters.
width_sum(cps, n) ==
    IF n = 0 \/ cps = <<>> THEN 0
    ELSE width_or_1(cps[1]) + width_sum(Tail(cps), n - 1)

\* The control-character branch of the loop body of draw.
draw_control(c, st) ==
    [out |-> st.out \o <<REVERSE_VIDEO, Ch(rendered_char(c)), RESET_FMT>> \o
                (IF st.current_hl_type # "Normal"
                 THEN <<to_string(st.current_hl_type)>> ELSE <<>>),
     current_hl_type |-> st.current_hl_type,
     rx |-> st.rx + width_or_1(c)]

\* The other branch, hl_type being the class after the match_segment test.
draw_char(c, hl_type, reset, st) ==
    [out |-> st.out \o (IF reset THEN <<RESET_FMT>> ELSE <<>>) \o
                (IF st.current_hl_type # hl_type
                 THEN <<to_string(hl_type)>> ELSE <<>>) \o <<Ch(c)>>,
     current_hl_type |-> hl_type,
     rx |-> st.rx + width_or_1(c)]

\* The loop body of draw for the character c and its zipped hl entry.
draw_step(c, hl_type, segment, st) ==
    IF is_ascii_control(c) THEN draw_control(c, st)
    ELSE IF segment.some /\ contains(segment, st.rx)
    THEN draw_char(c, "Match", FALSE, st)
    ELSE draw_char(c, hl_type, segment.some /\ st.rx = segment.end, st)

RECURSIVE draw_loop(_, _, _, _, _, _)
\* The for loop of draw over the characters k..last (1-based) of render,
\* each zipped with the hl entry of the same index.
draw_loop(cps, hl, segment, k, last, st) ==
    IF k > last THEN st
    ELSE draw_loop(cps, hl, segment, k + 1, last,
                   draw_step(cps[k], hl[k], segment, st))

Min(a, b) == IF a <= b THEN a ELSE b

\* The buffer after Row::draw(offset, max_len), empty before: skip(offset)
\* and take(max_len) count characters of render, and the zip ends with the
\* shorter of the characters and the hl entries.
draw_chars(cps, hl, offset, max_len, segment) ==
    Append(draw_loop(cps, hl, segment, offset + 1,
                     Min(Min(Len(cps), Len(hl)), offset + max_len),
                     [out |-> <<>>, current_hl_type |-> "Normal",
                      rx |-> width_sum(cps, offset)]).out,
           RESET_FMT)

draw(row, offset, max_len, segment) ==
    draw_chars(code_points(row.render, 1), row.hl, offset, max_len, segment)

\* ----------------------------------------------------- Row::update_syntax
is_ascii_whitespace(c) == c \in {9, 10, 12, 13, 32}

is_ascii_punctuation(c) ==
    \/ c >= 33 /\ c <= 47
    \/ c >= 58 /\ c <= 64
    \/ c >= 91 /\ c <= 96
    \/ c >= 123 /\ c <= 126

is_ascii_digit(c) == c >= 48 /\ c <= 57

is_sep(c) ==
    is_ascii_whitespace(c) \/ c = 0 \/ (is_ascii_punctuation(c) /\ c # 95)

\* The closure find_str at loop index i (0-based): line[i..i + s.len()] == s.
find_str(line, i, s) ==
    i + Len(s) <= Len(line) /\ SubSeq(line, i + 1, i + Len(s)) = s

\* The closure s_filter: the byte after the keyword is a separator, or the
\* keyword ends the line.
s_filter(line, i, kw) ==
    i + Len(kw) >= Len(line) \/ is_sep(line[i + Len(kw) + 1])

\* The rows of the array the for loop over block constructs goes through: an
\* absent delimiter pair is the empty sequence.
ml_table(conf) ==
    <<[delims |-> conf.ml_comment_delims, mstate |-> MultiLineComment,
       mtype |-> "MlComment"],
      [delims |-> IF conf.ml_string_delim = <<>> THEN <<>>
                  ELSE <<<<conf.ml_string_delim[1], conf.ml_string_delim[1]>>>>,
       mstate |-> MultiLineString, mtype |-> "MlString"]>>

ml_fires_in_any_state(line, i, st, e) ==
    /\ e.delims # <<>>
    /\ \/ st = e.mstate
       \/ find_str(line, i, e.delims[1][1])

\* Whether the body of the for loop over block constructs reaches a
\* `continue 'syntax_loop` for row e of the table.
ml_fires(line, i, st, e) ==
    /\ e.delims # <<>>
    /\ \/ st = e.mstate
       \/ st = Normal /\ find_str(line, i, e.delims[1][1])

\* What that body pushes and the state it leaves.
ml_step(line, i, hl, st, e) ==
    LET start == e.delims[1][1]
        end == e.delims[1][2]
    IN  IF st = e.mstate
        THEN IF find_str(line, i, end)
             THEN [hl |-> hl \o Rep(e.mtype, Len(end)), st |-> Normal]
             ELSE [hl |-> Append(hl, e.mtype), st |-> st]
        ELSE [hl |-> hl \o Rep(e.mtype, Len(start)), st |-> e.mstate]

RECURSIVE keyword_hl(_, _, _, _, _)
\* What the two nested for loops over syntax.keywords push at loop index i:
\* the class of every keyword of every list that matches there, from list k,
\* keyword j on.
keyword_hl(line, i, keywords, k, j) ==
    IF k > Len(keywords) THEN <<>>
    ELSE IF j > Len(keywords[k][2]) THEN keyword_hl(line, i, keywords, k + 1, 1)
    ELSE LET kw == keywords[k][2][j]
         IN  (IF find_str(line, i, kw) /\ s_filter(line, i, kw)
              THEN Rep(keywords[k][1], Len(kw)) ELSE <<>>)
             \o keyword_hl(line, i, keywords, k, j + 1)

number_ends_at_first_byte(hl, i, prev_sep, c) == FALSE

\* i != 0 && self.hl[i - 1] == HlType::Number && !prev_sep && !is_sep(c): the
\* byte at i goes on with the number before it.
continues_number(hl, i, prev_sep, c) ==
    i # 0 /\ hl[i] = "Number" /\ ~prev_sep /\ ~is_sep(c)

escapes_at_line_end(line, i, c) == c = 92

\* c == b'\\' && i != line.len() - 1: the byte after c is pushed with it.
escapes(line, i, c) == c = 92 /\ i # Len(line) - 1

\* One iteration of 'syntax_loop: self.hl and hl_state after it.
syntax_step(line, conf, hl, st) ==
    LET i == Len(hl)
        c == line[i + 1]
        tbl == ml_table(conf)
        prev_sep == i = 0 \/ is_sep(line[i])
    IN  IF /\ st = Normal
           /\ \E k \in DOMAIN conf.sl_comment_start :
                 find_str(line, i, conf.sl_comment_start[k])
        THEN [hl |-> hl \o Rep("Comment", Len(line) - i), st |-> st]
        ELSE IF ml_fires(line, i, st, tbl[1]) THEN ml_step(line, i, hl, st, tbl[1])
        ELSE IF ml_fires(line, i, st, tbl[2]) THEN ml_step(line, i, hl, st, tbl[2])
        ELSE IF st.t = "String"
        THEN [hl |-> IF c # st.q /\ escapes(line, i, c)
                     THEN hl \o <<"String", "String">>
                     ELSE Append(hl, "String"),
              st |-> IF c = st.q THEN Normal ELSE st]
        ELSE IF \E k \in DOMAIN conf.sl_string_quotes : conf.sl_string_quotes[k] = c
        THEN [hl |-> Append(hl, "String"), st |-> StringState(c)]
        ELSE IF /\ conf.highlight_numbers
                /\ \/ is_ascii_digit(c) /\ prev_sep
                   \/ continues_number(hl, i, prev_sep, c)
        THEN [hl |-> Append(hl, "Number"), st |-> st]
        ELSE [hl |-> (IF prev_sep
                      THEN hl \o keyword_hl(line, i, conf.keywords, 1, 1)
                      ELSE hl) \o <<"Normal">>,
              st |-> st]

RECURSIVE syntax_loop(_, _, _, _)
\* 'syntax_loop: while self.hl.len() < line.len().
syntax_loop(line, conf, hl, st) ==
    IF Len(hl) >= Len(line) THEN [hl |-> hl, st |-> st]
    ELSE LET r == syntax_step(line, conf, hl, st)
         IN  syntax_loop(line, conf, r.hl, r.st)

stored_state_keeps_string(st) == st

\* The state update_syntax stores in self.hl_state and returns: the String
\* state does not propagate to the next row.
stored_state(st) == IF st.t = "String" THEN Normal ELSE st

\* Row::update_syntax on the rendered line: the new hl and hl_state.
update_syntax(line, conf, hl_state) ==
    LET r == syntax_loop(line, conf, <<>>, hl_state)
    IN  [hl |-> r.hl, hl_state |-> stored_state(r.st)]

\* The row Row::update leaves, m being the maps of the render pass and u the
\* result of update_syntax, and the state it returns.
updated_row(row, m, u) ==
    [row |-> [chars |-> row.chars, render |-> m.render, cx2rx |-> m.cx2rx,
              rx2cx |-> m.rx2cx, hl |-> u.hl, hl_state |-> u.hl_state,
              match_segment |-> row.match_segment],
     ret |-> u.hl_state]

\* The call self.update_syntax(syntax, hl_state) that ends Row::update.
update_rendered(row, m, conf, hl_state) ==
    updated_row(row, m, update_syntax(m.render, conf, hl_state))

\* Row::update: the row it leaves (row) and the state it returns (ret).
update(row, conf, hl_state, tab) ==
    update_rendered(row, render_pass(row.chars, tab), conf, hl_state)

\* ------------------------------------------- Editor::update_row and friends
stop_propagation_always(ignore_following_rows, hl_state, previous_hl_state) ==
    TRUE

\* The test that ends the loop of update_row after a row has been updated.
stop_propagation(ignore_following_rows, hl_state, previous_hl_state) ==
    ignore_following_rows \/ hl_state = previous_hl_state

RECURSIVE update_row_loop(_, _, _, _, _, _, _)
RECURSIVE update_row_body(_, _, _, _, _, _, _)
\* The body of the for loop of update_row at row k once row.update has
\* returned u: return, or go on with the next row.
update_row_body(rs, k, u, ignore_following_rows, conf, tab, n) ==
    IF stop_propagation(ignore_following_rows, u.ret, rs[k].hl_state)
    THEN [rows |-> [rs EXCEPT ![k] = u.row], n |-> n + 1]
    ELSE update_row_loop([rs EXCEPT ![k] = u.row], k + 1, u.ret,
                         ignore_following_rows, conf, tab, n + 1)

\* The for loop of update_row from row k (1-based) on, hl_state being the
\* state the previous row handed over and n the number of rows updated so
\* far: the rows it leaves and the number of rows it has updated.
update_row_loop(rs, k, hl_state, ignore_following_rows, conf, tab, n) ==
    IF k > Len(rs) THEN [rows |-> rs, n |-> n]
    ELSE update_row_body(rs, k, update(rs[k], conf, hl_state, tab),
                         ignore_following_rows, conf, tab, n)

\* Editor::update_row(y, ignore_following_rows), y counted from 0.
update_row(rs, y, ignore_following_rows, conf, tab) ==
    update_row_loop(rs, y + 1, IF y > 0 THEN rs[y].hl_state ELSE Normal,
                    ignore_following_rows, conf, tab, 0)

RECURSIVE update_all_rows_loop(_, _, _, _, _)
RECURSIVE update_all_rows_body(_, _, _, _, _)
\* The body of the for loop of update_all_rows at row k once row.update has
\* returned u.
update_all_rows_body(rs, k, u, conf, tab) ==
    update_all_rows_loop([rs EXCEPT ![k] = u.row], k + 1, u.ret, conf, tab)

update_all_rows_loop(rs, k, hl_state, conf, tab) ==
    IF k > Len(rs) THEN rs
    ELSE update_all_rows_body(rs, k, update(rs[k], conf, hl_state, tab),
                              conf, tab)

\* Editor::update_all_rows.
update_all_rows(rs, conf, tab) ==
    update_all_rows_loop(rs, 1, Normal, conf, tab)

\* ------------------------------------------------ syntax configurations
\* SyntaxConf::default(): no highlighting at all.
ConfDefault ==
    [highlight_numbers |-> FALSE, sl_string_quotes |-> <<>>,
     sl_comment_start |-> <<>>, ml_comment_delims |-> <<>>,
     ml_string_delim |-> <<>>, keywords |-> <<>>]

\* A C-like configuration: numbers, "..." strings, // and /* */ comments,
\* the keyword a in keywords_1 and the keyword aa in keywords_2.
ConfC ==
    [highlight_numbers |-> TRUE, sl_string_quotes |-> <<34>>,
     sl_comment_start |-> <<<<47, 47>>>>,
     ml_comment_delims |-> <<<<<<47, 42>>, <<42, 47>>>>>>,
     ml_string_delim |-> <<>>,
     keywords |-> <<<<"Keyword1", <<<<97>>>>>>, <<"Keyword2", <<<<97, 97>>>>>>>>]

\* A configuration with "..." strings and a block string delimited by **.
ConfBlockString ==
    [highlight_numbers |-> FALSE, sl_string_quotes |-> <<34>>,
     sl_comment_start |-> <<>>, ml_comment_delims |-> <<>>,
     ml_string_delim |-> <<<<42, 42>>>>, keywords |-> <<>>]

\* A configuration that lists the keyword a twice in keywords_1 and once
\* more in keywords_2.
ConfDup ==
    [highlight_numbers |-> FALSE, sl_string_quotes |-> <<>>,
     sl_comment_start |-> <<>>, ml_comment_delims |-> <<>>,
     ml_string_delim |-> <<>>,
     keywords |-> <<<<"Keyword1", <<<<97>>, <<97>>>>>>, <<"Keyword2", <<<<97>>>>>>>>]

\* A Pascal-like configuration: { } comments that span lines.
ConfBrace ==
    [highlight_numbers |-> FALSE, sl_string_quotes |-> <<>>,
     sl_comment_start |-> <<>>,
     ml_comment_delims |-> <<<<<<123>>, <<125>>>>>>,
     ml_string_delim |-> <<>>, keywords |-> <<>>]

\* What Conf::parse makes of the line `multiline_string_delim=`: the value is
\* the empty string, and parse_value gives Some("").
ConfEmptyDelim ==
    [highlight_numbers |-> FALSE, sl_string_quotes |-> <<34>>,
     sl_comment_start |-> <<>>, ml_comment_delims |-> <<>>,
     ml_string_delim |-> <<<<>>>>, keywords |-> <<>>]

\* What Conf::parse makes of `singleline_comment_start=` and
\* `multiline_comment_delims=,*/`: an empty line-comment token and an empty
\* block-comment start.
ConfEmptyStart ==
    [highlight_numbers |-> FALSE, sl_string_quotes |-> <<>>,
     sl_comment_start |-> <<<<>>>>,
     ml_comment_delims |-> <<<<<<>>, <<42, 47>>>>>>,
     ml_string_delim |-> <<>>, keywords |-> <<>>]

\* A Python-like configuration: "..." and '...' strings, # comments and a
\* block string delimited by three double quotes.
ConfPython ==
    [highlight_numbers |-> TRUE, sl_string_quotes |-> <<34, 39>>,
     sl_comment_start |-> <<<<35>>>>, ml_comment_delims |-> <<>>,
     ml_string_delim |-> <<<<34, 34, 34>>>>, keywords |-> <<>>]

Confs == {ConfDefault, ConfC, ConfBlockString, ConfDup}

\* The states a caller may pass to Row::update.
HlStates == {Normal, MultiLineComment, MultiLineString, StringState(34)}

\* Bytes of the lines of the mapping specification: a tab, the letter a, and
\* the bytes of U+0301 (CC 81, a combining mark), of U+4041 (E4 81 81, a wide
\* ideograph) and of ill-formed sequences of them.
MapBytes == {9, 97, 129, 204, 228}

\* Bytes of the lines of the tokenizer specification: space, ", *, /, 1, \, a.
SynBytes == {32, 34, 42, 47, 49, 92, 97}

\* Bytes of the lines of the drawing specification: the control characters
\* SUB (26), ESC (27) and DEL (127), and the digit 1.
DrawBytes == {26, 27, 49, 127}

\* Bytes of the lines with wide characters: the letter a and the bytes of
\* U+4041 (E4 81 81).
WideBytes == {97, 129, 228}

\* Bytes of the lines of the editor specification: { and }.
EdBytes == {123, 125}

\* ------------------------------------------------------- the key decoder
\* What bytes.next().transpose() yields besides Some(byte): None, when the
\* read of the terminal (VMIN = 0, VTIME = 1) returns no byte, and Err.
NoByte == -1
IoError == -2
EndOfStream == -3

\* Config::default().quit_times.
QuitTimes == 2

\* enum Key and enum AKey; NoKey while loop_until_keypress has not returned,
\* ReadError for the Err(..) the ? operator returns.
NoKey == [k |-> "None", a |-> "", b |-> 0]
ReadError == [k |-> "Error", a |-> "", b |-> 0]
Arrow(akey) == [k |-> "Arrow", a |-> akey, b |-> 0]
CtrlArrow(akey) == [k |-> "CtrlArrow", a |-> akey, b |-> 0]
PageUp == [k |-> "PageUp", a |-> "", b |-> 0]
PageDown == [k |-> "PageDown", a |-> "", b |-> 0]
Home == [k |-> "Home", a |-> "", b |-> 0]
End == [k |-> "End", a |-> "", b |-> 0]
Delete == [k |-> "Delete", a |-> "", b |-> 0]
Escape == [k |-> "Escape", a |-> "", b |-> 0]
Char(byte) == [k |-> "Char", a |-> "", b |-> byte]

\* The bytes the terminal sends in this model: ESC, the digits, ; A B C D F H
\* O [ a b c d x and ~.
KeyBytes ==
    {27, 59, 70, 72, 79, 91, 120, 126} \cup (48..57) \cup (65..68) \cup (97..100)

ReadResults == (0..255) \cup {NoByte, IoError, EndOfStream}

\* bytes.next() through the BufReader: a buffered byte if there is one, else
\* one read() of the terminal, which yields an error, no byte, or a chunk of
\* 1..MaxChunk bytes of which the first is returned. left is the number of
\* bytes the BufReader holds afterwards. A read() of 0 bytes is Ok(0) whether
\* the read timed out (NoByte) or the stream has ended (EndOfStream): Bytes
\* turns both into None. Once the stream has ended no byte comes any more.
ReadYields(r, left) ==
    /\ IF buffered > 0
       THEN r \in keyboard /\ left = buffered - 1
       ELSE IF closed
       THEN r \in {EndOfStream, IoError} /\ left = 0
       ELSE \/ r \in {NoByte, IoError, EndOfStream} /\ left = 0
            \/ r \in keyboard /\ left \in 0..(MaxChunk - 1)
    /\ closed' = (closed \/ r = EndOfStream)

third_key_swaps_arrows(b, r) ==
    CASE b = 91 /\ r = 65 -> Arrow("Up")
      [] b = 91 /\ r = 66 -> Arrow("Down")
      [] b = 91 /\ r = 67 -> Arrow("Left")
      [] b = 91 /\ r = 68 -> Arrow("Right")
      [] r = 72 -> Home
      [] r = 70 -> End
      [] b = 79 /\ r = 97 -> CtrlArrow("Up")
      [] b = 79 /\ r = 98 -> CtrlArrow("Down")
      [] b = 79 /\ r = 99 -> CtrlArrow("Right")
      [] b = 79 /\ r = 100 -> CtrlArrow("Left")
      [] OTHER -> Escape

\* The match on (b, third byte) of the arms that return a key at once.
third_key(b, r) ==
    CASE b = 91 /\ r = 65 -> Arrow("Up")
      [] b = 91 /\ r = 66 -> Arrow("Down")
      [] b = 91 /\ r = 67 -> Arrow("Right")
      [] b = 91 /\ r = 68 -> Arrow("Left")
      [] r = 72 -> Home
      [] r = 70 -> End
      [] b = 79 /\ r = 97 -> CtrlArrow("Up")
      [] b = 79 /\ r = 98 -> CtrlArrow("Down")
      [] b = 79 /\ r = 99 -> CtrlArrow("Right")
      [] b = 79 /\ r = 100 -> CtrlArrow("Left")
      [] OTHER -> Escape

param_key_defaults_to_tilde(c, d) ==
    CASE (d = 126 \/ d = NoByte) /\ (c = 49 \/ c = 55) -> Home
      [] (d = 126 \/ d = NoByte) /\ (c = 52 \/ c = 56) -> End
      [] c = 51 /\ (d = 126 \/ d = NoByte) -> Delete
      [] c = 53 /\ (d = 126 \/ d = NoByte) -> PageUp
      [] c = 54 /\ (d = 126 \/ d = NoByte) -> PageDown
      [] c = 53 /\ d = 65 -> CtrlArrow("Up")
      [] c = 53 /\ d = 66 -> CtrlArrow("Down")
      [] c = 53 /\ d = 67 -> CtrlArrow("Right")
      [] c = 53 /\ d = 68 -> CtrlArrow("Left")
      [] OTHER -> Escape

\* The match on (c, d) of the numeric-parameter arm.
param_key(c, d) ==
    CASE d = 126 /\ (c = 49 \/ c = 55) -> Home
      [] d = 126 /\ (c = 52 \/ c = 56) -> End
      [] c = 51 /\ d = 126 -> Delete
      [] c = 53 /\ d = 126 -> PageUp
      [] c = 54 /\ d = 126 -> PageDown
      [] c = 53 /\ d = 65 -> CtrlArrow("Up")
      [] c = 53 /\ d = 66 -> CtrlArrow("Down")
      [] c = 53 /\ d = 67 -> CtrlArrow("Right")
      [] c = 53 /\ d = 68 -> CtrlArrow("Left")
      [] OTHER -> Escape

elides_any_parameter(c, d) == d = 59

\* if (c, d) == (Some(b'1'), Some(b';')): the default modifier is elided.
elides(c, d) == c = 49 /\ d = 59

\* The (c, d) of the arms of the match on (c, d) that give a key.
ParamTails ==
    {<<49, 126>>, <<55, 126>>, <<52, 126>>, <<56, 126>>, <<51, 126>>,
     <<53, 126>>, <<54, 126>>, <<53, 65>>, <<53, 66>>, <<53, 67>>, <<53, 68>>}

DecoderIdle ==
    /\ pc = "idle" /\ seq = <<>> /\ buffered = 0
    /\ key = NoKey /\ reg_c = NoByte /\ reg_d = NoByte
    /\ closed = FALSE
    /\ prev = [c |-> NoByte, d |-> NoByte, key |-> NoKey]

\* Option<usize>::None and Some(v).
None == [some |-> FALSE, v |-> 0]
Some(v) == [some |-> TRUE, v |-> v]

\* CursorState::default(): the byte offset x in the row, the row y and the
\* row offset roff of the window (the column offset coff is left out: no
\* cursor computation reads it).
CursorState == [x |-> 0, y |-> 0, roff |-> 0]

\* Editor.prompt_mode: None, or Some(Find(buffer, saved_cursor, last_match)),
\* or Some(GoTo(buffer)).
NoPrompt ==
    [mode |-> "None", buffer |-> <<>>, saved_cursor |-> CursorState,
     last_match |-> None]
Find(buffer, saved_cursor, last_match) ==
    [mode |-> "Find", buffer |-> buffer, saved_cursor |-> saved_cursor,
     last_match |-> last_match]
GoTo(buffer) == [NoPrompt EXCEPT !.mode = "GoTo", !.buffer = buffer]

\* No file on disk: nothing to open, nothing saved, no save has failed.
NoDisk == [exists |-> FALSE, bytes |-> <<>>, saved |-> None, err |-> FALSE]

\* The rows of the terminal window the editor starts in.
WindowRows == 24

\* wsize.0.saturating_sub(2): room for the status bar and the message bar.
usable_rows(ws_row) == IF ws_row >= 2 THEN ws_row - 2 ELSE 0

\* Editor::new with the default configuration in a window of WindowRows
\* rows: update_window_size has run, no resize signal has come.
TermIdle ==
    /\ quit_conf = QuitTimes
    /\ window = WindowRows
    /\ screen_rows = usable_rows(WindowRows)
    /\ wsc = FALSE

\* Editor::default() with the default configuration: before any key.
DocIdle ==
    /\ cursor = CursorState
    /\ dirty = FALSE
    /\ n_bytes = 0
    /\ quit_times = QuitTimes
    /\ copied_row = <<>>
    /\ prompt_mode = NoPrompt
    /\ file_name = FALSE
    /\ disk = NoDisk

DocUnchanged ==
    UNCHANGED <<keyboard, cursor, dirty, n_bytes, quit_times, copied_row,
                prompt_mode, file_name, disk>>

\* The editor before any key, and no tokenizer loop running.
EditorIdle == DocIdle /\ loop_state = Unset

EditorUnchanged == DocUnchanged /\ UNCHANGED loop_state

\* No get_char_size call yet.
NoSize == [rx |-> NoByte, n |-> 0]

\* No Row::draw call yet.
NotDrawn ==
    [offset |-> 0, max_len |-> 0, segment |-> NoSegment, done |-> FALSE,
     out |-> <<>>]

DecoderUnchanged ==
    UNCHANGED <<pc, seq, buffered, key, reg_c, reg_d, closed, prev>>

RowsIdle ==
    /\ rows = <<>> /\ syntax = ConfDefault /\ tab_stop = 1
    /\ TermIdle
    /\ arg_state = Unset /\ ret = Unset /\ last_upd = [y |-> 0, n |-> 0]
    /\ size = NoSize /\ drawn = NotDrawn

\* --------------------------------------------------- row specifications
\* Row::update has returned u for the incoming state s.
RowUpdated(s, u) ==
    /\ rows' = <<u.row>>
    /\ ret' = u.ret
    /\ arg_state' = s

\* Row::update called on the only row with any incoming state.
RowUpdate ==
    /\ \E s \in HlStates : RowUpdated(s, update(rows[1], syntax, s, tab_stop))
    /\ UNCHANGED <<syntax, tab_stop, quit_conf, screen_rows, wsc, window, last_upd, size, drawn>>
    /\ DecoderUnchanged /\ EditorUnchanged

\* get_char_size called on the updated row for any index of rx2cx.
GetCharSize ==
    /\ ret # Unset
    /\ \E rx \in 0..(Len(rows[1].rx2cx) - 1) :
          size' = [rx |-> rx, n |-> get_char_size(rows[1], rx)]
    /\ UNCHANGED <<rows, syntax, tab_stop, quit_conf, screen_rows, wsc, window, arg_state, ret, last_upd, drawn>>
    /\ DecoderUnchanged /\ EditorUnchanged

NextRow == RowUpdate \/ GetCharSize

\* Row::draw called on the updated row with the arguments drawn holds.
Draw ==
    /\ ret # Unset
    /\ drawn' = [drawn EXCEPT
                    !.out = draw(rows[1], drawn.offset, drawn.max_len,
                                 drawn.segment),
                    !.done = TRUE]
    /\ UNCHANGED <<rows, syntax, tab_stop, quit_conf, screen_rows, wsc, window, arg_state, ret, last_upd, size>>
    /\ DecoderUnchanged /\ EditorUnchanged

\* A row as Row::update from Normal leaves it, about to be drawn as
\* draw_rows does, from a column offset and for a number of screen columns,
\* with any match_segment.
InitDraw(alphabet) ==
    /\ \E chars \in Strings(alphabet, MaxLen) :
          LET u == update(Row_new(chars), ConfC, Normal, MaxTab)
          IN  rows = <<u.row>> /\ ret = u.ret
    /\ syntax = ConfC
    /\ tab_stop = MaxTab
    /\ TermIdle
    /\ arg_state = Normal /\ last_upd = [y |-> 0, n |-> 0]
    /\ size = NoSize
    /\ \E offset \in 0..MaxOffset, max_len \in 1..MaxLen,
          segment \in {NoSegment} \cup
              {Segment(a, b) : a \in 0..MaxLen, b \in 1..MaxLen} :
          /\ segment.some => segment.start < segment.end
          /\ drawn = [offset |-> offset, max_len |-> max_len,
                      segment |-> segment, done |-> FALSE, out |-> <<>>]
    /\ DecoderIdle /\ keyboard = KeyBytes /\ EditorIdle

\* Rows of digits and control characters, drawn.
SpecDraw == InitDraw(DrawBytes) /\ [][Draw]_vars

\* Rows of letters and wide characters, drawn.
SpecDrawWide == InitDraw(WideBytes) /\ [][Draw]_vars

\* Bytes of the lines with strings: the quote " and the bytes of U+00E9
\* (C3 A9).
QuotedBytes == {34, 169, 195}

\* Rows of quotes and two-byte characters, drawn.
SpecDrawQuoted == InitDraw(QuotedBytes) /\ [][Draw]_vars

InitRow(alphabet, confs, tabs) ==
    /\ \E chars \in Strings(alphabet, MaxLen) : rows = <<Row_new(chars)>>
    /\ syntax \in confs
    /\ tab_stop \in tabs
    /\ TermIdle
    /\ arg_state = Unset /\ ret = Unset /\ last_upd = [y |-> 0, n |-> 0]
    /\ size = NoSize /\ drawn = NotDrawn
    /\ DecoderIdle /\ keyboard = KeyBytes /\ EditorIdle

\* One row of tabs, ASCII, combining, wide and ill-formed characters.
SpecMap ==
    InitRow(MapBytes, {ConfDefault, ConfC}, 1..MaxTab) /\ [][RowUpdate]_vars

\* The same rows, updated and asked for the size of their characters.
SpecSize == InitRow(MapBytes, {ConfDefault}, 1..MaxTab) /\ [][NextRow]_vars

\* One row of ASCII text under every syntax configuration.
SpecSyntax ==
    InitRow(SynBytes, Confs, {MaxTab}) /\ [][RowUpdate]_vars

\* ------------------------------------------- the tokenizer, step by step
\* update_syntax has been entered on the rendered row: self.hl is cleared
\* and hl_state is the argument.
InitTokenizer(alphabet, confs) ==
    /\ \E chars \in Strings(alphabet, MaxLen) :
          LET m == render_pass(chars, MaxTab)
          IN  rows = <<[Row_new(chars) EXCEPT !.render = m.render,
                           !.cx2rx = m.cx2rx, !.rx2cx = m.rx2cx]>>
    /\ syntax \in confs
    /\ tab_stop = MaxTab
    /\ TermIdle
    /\ loop_state \in HlStates
    /\ arg_state = loop_state
    /\ ret = Unset /\ last_upd = [y |-> 0, n |-> 0]
    /\ size = NoSize /\ drawn = NotDrawn
    /\ DecoderIdle /\ keyboard = KeyBytes /\ DocIdle

\* The iteration of 'syntax_loop has left r.
SyntaxStepped(r) ==
    /\ rows' = [rows EXCEPT ![1].hl = r.hl]
    /\ loop_state' = r.st

\* One iteration of 'syntax_loop.
SyntaxStep ==
    /\ ret = Unset
    /\ Len(rows[1].hl) < Len(rows[1].render)
    /\ SyntaxStepped(syntax_step(rows[1].render, syntax, rows[1].hl,
                                 loop_state))
    /\ UNCHANGED <<syntax, tab_stop, quit_conf, screen_rows, wsc, window, arg_state, ret, last_upd, size, drawn>>
    /\ DecoderUnchanged /\ DocUnchanged

\* The loop condition fails: update_syntax stores the state and returns it.
SyntaxReturn ==
    /\ ret = Unset
    /\ Len(rows[1].hl) >= Len(rows[1].render)
    /\ rows' = [rows EXCEPT ![1].hl_state = stored_state(loop_state)]
    /\ ret' = stored_state(loop_state)
    /\ UNCHANGED <<syntax, tab_stop, quit_conf, screen_rows, wsc, window, arg_state, last_upd, size, drawn,
                   loop_state>>
    /\ DecoderUnchanged /\ DocUnchanged

NextTokenizer == SyntaxStep \/ SyntaxReturn

\* Bytes of the lines of the stepwise tokenizer: ", *, /, 1 and a.
TokBytes == {34, 42, 47, 49, 97}

\* 'syntax_loop under the configurations with empty tokens and delimiters.
SpecTokenizer ==
    InitTokenizer(TokBytes, {ConfC, ConfEmptyDelim, ConfEmptyStart})
    /\ [][NextTokenizer]_vars

\* Bytes of the lines of the string specification: ", ', \ and a.
QuoteBytes == {34, 39, 92, 97}

\* 'syntax_loop on lines of quotes and backslashes, with two quote
\* characters configured.
SpecQuotes ==
    InitTokenizer(QuoteBytes, {ConfPython}) /\ [][NextTokenizer]_vars

\* 'syntax_loop under configurations whose tokens are not empty.
SpecStates ==
    InitTokenizer(TokBytes, {ConfC, ConfBlockString, ConfPython})
    /\ [][NextTokenizer]_vars

\* update_row(y, false) has returned r.
RowsUpdated(y, r) ==
    /\ rows' = r.rows
    /\ last_upd' = [y |-> y, n |-> r.n]

\* The document changes in row y alone (an insertion or a deletion of bytes
\* there) and the editor calls update_row(y, false).
ChangeRow ==
    /\ \E y \in 0..(Len(rows) - 1), chars \in Strings(EdBytes, MaxEdLen) :
          /\ chars # rows[y + 1].chars
          /\ RowsUpdated(y, update_row([rows EXCEPT ![y + 1].chars = chars], y,
                                       FALSE, syntax, tab_stop))
    /\ UNCHANGED <<syntax, tab_stop, quit_conf, screen_rows, wsc, window, arg_state, ret, size, drawn>>
    /\ DecoderUnchanged /\ EditorUnchanged

\* A document of 1..MaxRows rows as Editor::load leaves it: every row updated
\* from the top by update_all_rows.
InitEditor ==
    /\ \E n \in 1..MaxRows :
          \E doc \in [1..n -> Strings(EdBytes, MaxEdLen)] :
             rows = update_all_rows([k \in 1..n |-> Row_new(doc[k])],
                                    ConfBrace, MaxTab)
    /\ syntax = ConfBrace
    /\ tab_stop = MaxTab
    /\ TermIdle
    /\ arg_state = Unset /\ ret = Unset /\ last_upd = [y |-> 0, n |-> 0]
    /\ size = NoSize /\ drawn = NotDrawn
    /\ DecoderIdle /\ keyboard = KeyBytes /\ EditorIdle

SpecEditor == InitEditor /\ [][ChangeRow]_vars

\* ------------------------------------------------- the key specification
RowsUnchanged ==
    /\ UNCHANGED <<rows, syntax, tab_stop, quit_conf, screen_rows, wsc, window, arg_state, ret, last_upd, size,
                   drawn>>
    /\ EditorUnchanged

\* loop_until_keypress returns: the BufReader of the call is dropped with
\* the left bytes it still holds (buffered keeps their number until the next
\* call makes a new BufReader).
Return(k, left) ==
    /\ key' = k
    /\ pc' = "done"
    /\ buffered' = left

Fail_returns_Escape(r) == r = IoError /\ Return(Escape, 0)

\* The read failed and the ? operator returns the error.
Fail(r) == r = IoError /\ Return(ReadError, 0)

\* Editor::run calls loop_until_keypress.
Call ==
    /\ pc \in {"idle", "done"}
    /\ pc' = "first"
    /\ seq' = <<>>
    /\ key' = NoKey
    /\ reg_c' = NoByte /\ reg_d' = NoByte
    /\ prev' = IF /\ pc = "done" /\ Len(seq) = 4
                  /\ seq[1] = 27 /\ seq[2] = 91
                  /\ <<seq[3], seq[4]>> \in ParamTails
               THEN [c |-> seq[3], d |-> seq[4], key |-> key]
               ELSE prev
    /\ buffered' = 0
    /\ UNCHANGED closed
    /\ RowsUnchanged

\* The match on the first byte: with no byte the loop goes round again, with
\* a new BufReader.
ReadFirst ==
    /\ pc = "first"
    /\ \E r \in ReadResults, left \in 0..MaxChunk :
          /\ ReadYields(r, left)
          /\ \/ Fail(r) /\ seq' = Append(seq, r)
             \/ r \in {NoByte, EndOfStream} /\ UNCHANGED <<pc, key, seq, buffered>>
             \/ /\ r = 27
                /\ pc' = "second" /\ buffered' = left /\ seq' = Append(seq, r)
                /\ UNCHANGED key
             \/ /\ r \in 0..255 /\ r # 27
                /\ Return(Char(r), left) /\ seq' = Append(seq, r)
    /\ UNCHANGED <<reg_c, reg_d>>
    /\ UNCHANGED prev
    /\ RowsUnchanged

\* The match on the byte after ESC.
ReadSecond ==
    /\ pc = "second"
    /\ \E r \in ReadResults, left \in 0..MaxChunk :
          /\ ReadYields(r, left)
          /\ seq' = Append(seq, r)
          /\ \/ Fail(r)
             \/ /\ r \in {91, 79}
                /\ pc' = "third" /\ buffered' = left
                /\ UNCHANGED key
             \/ r \notin {91, 79, IoError} /\ Return(Escape, left)
    /\ UNCHANGED <<reg_c, reg_d>>
    /\ UNCHANGED prev
    /\ RowsUnchanged

\* The match on (b, third byte): a digit 0..8 after [ opens the
\* numeric-parameter arm.
ReadThird ==
    /\ pc = "third"
    /\ \E r \in ReadResults, left \in 0..MaxChunk :
          /\ ReadYields(r, left)
          /\ seq' = Append(seq, r)
          /\ \/ Fail(r) /\ UNCHANGED reg_c
             \/ /\ seq[2] = 91 /\ r \in 48..56
                /\ reg_c' = r
                /\ pc' = "d" /\ buffered' = left
                /\ UNCHANGED key
             \/ /\ r # IoError
                /\ ~(seq[2] = 91 /\ r \in 48..56)
                /\ Return(third_key(seq[2], r), left)
                /\ UNCHANGED reg_c
    /\ UNCHANGED reg_d
    /\ UNCHANGED prev
    /\ RowsUnchanged

\* let mut d = bytes.next(): after 1 ; the parameter is read again.
ReadD ==
    /\ pc = "d"
    /\ \E r \in ReadResults, left \in 0..MaxChunk :
          /\ ReadYields(r, left)
          /\ seq' = Append(seq, r)
          /\ \/ Fail(r) /\ UNCHANGED reg_d
             \/ /\ elides(reg_c, r)
                /\ reg_d' = r
                /\ pc' = "c2" /\ buffered' = left
                /\ UNCHANGED key
             \/ /\ r # IoError
                /\ ~elides(reg_c, r)
                /\ reg_d' = r
                /\ Return(param_key(reg_c, r), left)
    /\ UNCHANGED reg_c
    /\ UNCHANGED prev
    /\ RowsUnchanged

ReadC2_keeps_c ==
    /\ pc = "c2"
    /\ \E r \in ReadResults, left \in 0..MaxChunk :
          /\ ReadYields(r, left)
          /\ seq' = Append(seq, r)
          /\ \/ Fail(r) /\ UNCHANGED reg_c
             \/ /\ r # IoError
                /\ UNCHANGED reg_c
                /\ pc' = "d2" /\ buffered' = left
                /\ UNCHANGED key
    /\ UNCHANGED reg_d
    /\ UNCHANGED prev
    /\ RowsUnchanged

\* c = bytes.next() after the elided 1 ; prefix.
ReadC2 ==
    /\ pc = "c2"
    /\ \E r \in ReadResults, left \in 0..MaxChunk :
          /\ ReadYields(r, left)
          /\ seq' = Append(seq, r)
          /\ \/ Fail(r) /\ UNCHANGED reg_c
             \/ /\ r # IoError
                /\ reg_c' = r
                /\ pc' = "d2" /\ buffered' = left
                /\ UNCHANGED key
    /\ UNCHANGED reg_d
    /\ UNCHANGED prev
    /\ RowsUnchanged

\* d = bytes.next() after it, and the match on (c, d).
ReadD2 ==
    /\ pc = "d2"
    /\ \E r \in ReadResults, left \in 0..MaxChunk :
          /\ ReadYields(r, left)
          /\ seq' = Append(seq, r)
          /\ \/ Fail(r) /\ UNCHANGED reg_d
             \/ /\ r # IoError
                /\ reg_d' = r
                /\ Return(param_key(reg_c, r), left)
    /\ UNCHANGED reg_c
    /\ UNCHANGED prev
    /\ RowsUnchanged

\* ------------------------------------------------ Editor::process_keypress
ctrl_key(byte) == byte % 32
EXIT == ctrl_key(81)
REFRESH_SCREEN == ctrl_key(76)

\* The bytes b for which Key::Char(b) reaches the last arm, insert_byte:
\* not Enter, Backspace, Ctrl-H or one of the other Ctrl commands.
InsertedBytes ==
    (0..255) \ ({10, 13, 127} \cup
                 {ctrl_key(b) : b \in {67, 68, 69, 70, 71, 72, 76, 81, 82,
                                        83, 86, 88}})

\* The keys whose arms of process_keypress are modelled.
ModelledKeys ==
    {Home, End, Escape, Char(REFRESH_SCREEN), Char(EXIT)} \cup
    {Char(b) : b \in InsertedBytes}

\* The fields of the Editor that process_keypress works on.
Ed == [rows |-> rows, cursor |-> cursor, dirty |-> dirty,
       n_bytes |-> n_bytes, quit_times |-> quit_times,
       copied_row |-> copied_row, file_name |-> file_name,
       quit_conf |-> quit_conf, screen_rows |-> screen_rows,
       panicked |-> FALSE, overflowed |-> FALSE]

\* An index out of bounds, or an overflow whose result is then used as an
\* index: the thread panics in every build.
panic(ed) == [ed EXCEPT !.panicked = TRUE]

\* An arithmetic overflow that is used as a number only: a panic in a build
\* with overflow checks, the wrapped value in a build without them.
overflow(ed) == [ed EXCEPT !.overflowed = TRUE]

\* self.current_row().map_or(0, |row| row.chars.len())
current_row_len(ed) ==
    IF ed.cursor.y < Len(ed.rows)
    THEN Len(ed.rows[ed.cursor.y + 1].chars) ELSE 0

\* Vec::insert(x, c).
vec_insert(v, x, c) == SubSeq(v, 1, x) \o <<c>> \o SubSeq(v, x + 1, Len(v))

\* The end of insert_byte: update_row(cursor.y, false) has returned u.
inserted(ed, u) ==
    [ed EXCEPT !.rows = u.rows, !.cursor.x = @ + 1, !.n_bytes = @ + 1,
               !.dirty = TRUE]

\* Vec::insert panics when cursor.x is beyond the length of the row.
insert_byte(ed, c) ==
    IF /\ ed.cursor.y < Len(ed.rows)
       /\ ed.cursor.x > Len(ed.rows[ed.cursor.y + 1].chars)
    THEN panic(ed)
    ELSE
    inserted(ed,
        update_row(IF ed.cursor.y < Len(ed.rows)
                   THEN [ed.rows EXCEPT ![ed.cursor.y + 1].chars =
                            vec_insert(@, ed.cursor.x, c)]
                   ELSE Append(ed.rows, Row_new(<<c>>)),
                   ed.cursor.y, FALSE, syntax, tab_stop))

\* ------------------------------------------------------ cursor movement
\* usize::MAX, as far as it matters: larger than the length of any row.
usize_MAX == 2147483647

\* a - b in usize without overflow checks.
wrapping_sub(a, b) == IF a >= b THEN a - b ELSE usize_MAX - (b - a - 1)

saturating_sub(a, b) == IF a >= b THEN a - b ELSE 0

\* Ord::clamp(min, max), min <= max.
clamp(v, min, max) == IF v < min THEN min ELSE IF v > max THEN max ELSE v

\* CursorState::scroll, the row offset: the cursor stays in the window.
scroll(ed) ==
    [ed EXCEPT !.cursor.roff =
        clamp(@, saturating_sub(ed.cursor.y,
                                saturating_sub(ed.screen_rows, 1)),
              ed.cursor.y)]

\* Editor::refresh_screen, as far as the editor changes: the scroll, after
\* self.rx() has read cx2rx[cursor.x] of the current row.
refresh_screen(ed) ==
    IF /\ ed.cursor.y < Len(ed.rows)
       /\ ed.cursor.x >= Len(ed.rows[ed.cursor.y + 1].cx2rx)
    THEN panic(ed) ELSE scroll(ed)

\* update_cursor_x_position: clamp cursor.x to the length of the current row.
update_cursor_x_position(ed) ==
    [ed EXCEPT !.cursor.x = Min(@, current_row_len(ed))]

\* row.cx2rx[cursor_x] - 1 is below 0: the subtraction overflows, and the
\* wrapped value is no index of rx2cx in get_char_size (and cursor_x is no
\* index of cx2rx when it is beyond it).
underflows(row, x) == x >= Len(row.cx2rx) \/ row.cx2rx[x + 1] = 0

\* The size of the character that ends at byte offset x of the row.
size_before(row, x) == get_char_size(row, row.cx2rx[x + 1] - 1)

\* The size of the character that starts at byte offset x of the row.
size_at(row, x) == get_char_size(row, row.cx2rx[x + 1])

RECURSIVE word_left(_, _)
\* while ctrl && cursor_x > 0 && row.chars[cursor_x - 1] != b' '; -1 when
\* an iteration panics.
word_left(row, x) ==
    IF x > 0 /\ row.chars[x] # 32
    THEN IF underflows(row, x) \/ size_before(row, x) > x THEN -1
         ELSE word_left(row, x - size_before(row, x))
    ELSE x

\* The Left arm of move_cursor in a row, cursor.x > 0.
moved_left(ed, row, x, ctrl) ==
    IF underflows(row, x) THEN panic(ed)
    ELSE IF size_before(row, x) > x
    THEN IF ctrl THEN panic(ed)
         ELSE [overflow(ed) EXCEPT
                  !.cursor.x = wrapping_sub(x, size_before(row, x))]
    ELSE IF ~ctrl THEN [ed EXCEPT !.cursor.x = x - size_before(row, x)]
    ELSE IF word_left(row, x - size_before(row, x)) < 0 THEN panic(ed)
    ELSE [ed EXCEPT !.cursor.x = word_left(row, x - size_before(row, x))]

RECURSIVE word_right(_, _)
\* while ctrl && cursor_x < row.chars.len() && row.chars[cursor_x] != b' '
word_right(row, x) ==
    IF x < Len(row.chars) /\ row.chars[x + 1] # 32
    THEN word_right(row, x + size_at(row, x)) ELSE x

\* Editor::move_cursor(key, ctrl).
move_cursor(ed, akey, ctrl) ==
    LET x == ed.cursor.x
        y == ed.cursor.y
        some == y < Len(ed.rows)
        row == ed.rows[y + 1]
    IN  update_cursor_x_position(
          CASE akey = "Left" /\ some /\ x > 0 -> moved_left(ed, row, x, ctrl)
            [] akey = "Left" /\ ~(some /\ x > 0) /\ y > 0 ->
                 [ed EXCEPT !.cursor.x = usize_MAX, !.cursor.y = y - 1]
            [] akey = "Right" /\ some /\ x < Len(row.chars) ->
                 [ed EXCEPT !.cursor.x =
                     IF ctrl THEN word_right(row, x + size_at(row, x))
                     ELSE x + size_at(row, x)]
            \* move_to_next_line sets cursor.x to 0, but `self.cursor.x =
            \* cursor_x` after the match puts the old x back.
            [] akey = "Right" /\ some /\ x >= Len(row.chars) ->
                 [ed EXCEPT !.cursor.y = y + 1]
            [] akey = "Up" /\ y > 0 -> [ed EXCEPT !.cursor.y = y - 1]
            [] akey = "Down" /\ some -> [ed EXCEPT !.cursor.y = y + 1]
            [] OTHER -> ed)

\* ------------------------------------------------------------- editing
\* The end of insert_new_line: the new row goes in at position, the row is
\* updated and the cursor moves to the start of the next line.
new_line_inserted(ed, rs, position, new_row_chars) ==
    [ed EXCEPT
        !.rows = update_row(vec_insert(rs, position, Row_new(new_row_chars)),
                            position, FALSE, syntax, tab_stop).rows,
        !.cursor.x = 0, !.cursor.y = ed.cursor.y + 1,
        !.dirty = TRUE]

\* Editor::insert_new_line: n_bytes is left as it is. Vec::split_off panics
\* when cursor.x is beyond the length of the row.
insert_new_line(ed) ==
    LET x == ed.cursor.x
        y == ed.cursor.y
    IN  IF x = 0 THEN new_line_inserted(ed, ed.rows, y, <<>>)
        ELSE IF y >= Len(ed.rows) THEN panic(ed)
        ELSE IF x > Len(ed.rows[y + 1].chars) THEN panic(ed)
        ELSE new_line_inserted(ed,
                 update_row([ed.rows EXCEPT ![y + 1].chars = SubSeq(@, 1, x)],
                            y, FALSE, syntax, tab_stop).rows,
                 y + 1,
                 SubSeq(ed.rows[y + 1].chars, x + 1,
                        Len(ed.rows[y + 1].chars)))

\* Editor::is_empty.
is_empty(ed) == Len(ed.rows) <= 1 /\ ed.n_bytes = 0

\* The first arm of delete_char: the n bytes before the cursor go.
char_deleted(ed, n) ==
    LET x == ed.cursor.x
        y == ed.cursor.y
    IN  [ed EXCEPT
            !.rows = update_row(
                         [ed.rows EXCEPT ![y + 1].chars =
                             SubSeq(@, 1, x - n) \o SubSeq(@, x + 1, Len(@))],
                         y, FALSE, syntax, tab_stop).rows,
            !.cursor.x = x - n,
            !.dirty = IF is_empty(ed) THEN ed.file_name ELSE TRUE,
            !.n_bytes = @ - n]

\* Vec::remove(y), y counted from 0.
vec_remove(v, y) == SubSeq(v, 1, y) \o SubSeq(v, y + 2, Len(v))

\* The second arm of delete_char: the current row is appended to the
\* previous one; dirty and n_bytes are left as they are.
rows_merged(ed) ==
    LET y == ed.cursor.y
    IN  [ed EXCEPT
            !.rows = update_row(
                         update_row(
                             [vec_remove(ed.rows, y) EXCEPT ![y].chars =
                                 @ \o ed.rows[y + 1].chars],
                             y - 1, TRUE, syntax, tab_stop).rows,
                         y, FALSE, syntax, tab_stop).rows,
            !.cursor.x = Len(ed.rows[y].chars), !.cursor.y = y - 1]

\* Editor::delete_char.
delete_char(ed) ==
    IF ed.cursor.x > 0
    THEN IF ed.cursor.y >= Len(ed.rows) THEN panic(ed)
         ELSE IF underflows(ed.rows[ed.cursor.y + 1], ed.cursor.x)
         THEN panic(ed)
         ELSE IF \/ size_before(ed.rows[ed.cursor.y + 1], ed.cursor.x)
                       > ed.cursor.x
                 \/ ed.cursor.x > Len(ed.rows[ed.cursor.y + 1].chars)
         THEN panic(ed)
         ELSE char_deleted(ed, size_before(ed.rows[ed.cursor.y + 1],
                                           ed.cursor.x))
    ELSE IF ed.cursor.y < Len(ed.rows) /\ ed.cursor.y > 0 THEN rows_merged(ed)
    ELSE IF ed.cursor.y = Len(ed.rows) THEN move_cursor(ed, "Left", FALSE)
    ELSE ed

\* Editor::delete_current_row: the row is cleared, n_bytes is left as it
\* is, and delete_char runs from the start of the next line.
delete_current_row(ed) ==
    IF ed.cursor.y < Len(ed.rows)
    THEN delete_char(
             [ed EXCEPT
                 !.rows = update_row(
                              [ed.rows EXCEPT ![ed.cursor.y + 1].chars = <<>>],
                              ed.cursor.y, FALSE, syntax, tab_stop).rows,
                 !.cursor.x = 0, !.cursor.y = ed.cursor.y + 1])
    ELSE ed

\* Editor::copy_current_row.
copy_current_row(ed) ==
    IF ed.cursor.y < Len(ed.rows)
    THEN [ed EXCEPT !.copied_row = ed.rows[ed.cursor.y + 1].chars]
    ELSE ed

\* Editor::paste_current_row.
paste_current_row(ed) ==
    LET y == ed.cursor.y
    IN  IF ed.copied_row = <<>> THEN ed
        ELSE [ed EXCEPT
                 !.n_bytes = @ + Len(ed.copied_row),
                 !.rows = update_row(
                              IF y = Len(ed.rows)
                              THEN Append(ed.rows, Row_new(ed.copied_row))
                              ELSE vec_insert(ed.rows, y + 1,
                                              Row_new(ed.copied_row)),
                              IF y = Len(ed.rows) THEN y ELSE y + 1,
                              FALSE, syntax, tab_stop).rows,
                 !.cursor.y = y + 1,
                 !.dirty = TRUE]

\* ------------------------------------------------------------- prompts
\* process_prompt_keypress: the PromptState and its buffer.
process_prompt_keypress(buffer, k) ==
    IF k = Char(13) THEN [state |-> "Completed", buffer |-> buffer]
    ELSE IF k = Escape \/ k = Char(ctrl_key(81))
    THEN [state |-> "Cancelled", buffer |-> buffer]
    ELSE [state |-> "Active",
          buffer |->
              IF k = Char(127) \/ k = Char(ctrl_key(72))
              THEN SubSeq(buffer, 1, Len(buffer) - 1)
              ELSE IF k.k = "Char" /\ k.b <= 126 /\ ~is_ascii_control(k.b)
              THEN Append(buffer, k.b)
              ELSE buffer]

\* slice_find(s, needle): the first index (from 0) at which needle starts
\* in s, if any.
slice_find(s, needle) ==
    LET found == {i \in 0..(Len(s) - Len(needle)) : find_str(s, i, needle)}
    IN  IF found = {} THEN None
        ELSE Some(CHOOSE i \in found : \A j \in found : i <= j)

find_wraps_at_last_row(current, step, num_rows) ==
    Min(current + step, num_rows - 1)

\* (current + if forward { 1 } else { num_rows - 1 }) % num_rows
next_row(current, step, num_rows) == (current + step) % num_rows

\* The match arm of the loop of find: the cursor goes to the occurrence at
\* byte cx of row current and the row's match_segment is set.
matched(ed, current, cx, query) ==
    [ret |-> Some(current),
     ed |-> [ed EXCEPT
                !.cursor.x = cx, !.cursor.y = current,
                !.rows[current + 1].match_segment =
                    Segment(ed.rows[current + 1].cx2rx[cx + 1],
                            ed.rows[current + 1].cx2rx[cx + 1] + Len(query))]]

RECURSIVE find_loop(_, _, _, _, _)
\* The iterations left of `for _ in 0..num_rows` in find, current being the
\* row visited last.
find_loop(ed, query, current, forward, left) ==
    IF left = 0 THEN [ret |-> None, ed |-> ed]
    ELSE LET num_rows == Len(ed.rows)
             nxt == next_row(current, IF forward THEN 1 ELSE num_rows - 1,
                             num_rows)
             cx == slice_find(ed.rows[nxt + 1].chars, query)
         IN  IF cx.some THEN matched(ed, nxt, cx.v, query)
             ELSE find_loop(ed, query, nxt, forward, left - 1)

\* Editor::find(query, last_match, forward): what it returns and the editor
\* it leaves.
find(ed, query, last_match, forward) ==
    find_loop(ed, query,
              IF last_match.some THEN last_match.v
              ELSE IF Len(ed.rows) = 0 THEN 0 ELSE Len(ed.rows) - 1,
              forward, Len(ed.rows))

\* u.trim().parse::<usize>() on a buffer of digits and other printable
\* bytes: Err on the empty string and on any byte that is not a digit.
RECURSIVE parse(_)
parse(b) ==
    IF b = <<>> \/ \E k \in DOMAIN b : ~is_ascii_digit(b[k])
    THEN [ok |-> FALSE, v |-> 0]
    ELSE IF Len(b) = 1 THEN [ok |-> TRUE, v |-> b[1] - 48]
    ELSE [ok |-> TRUE,
          v |-> 10 * parse(SubSeq(b, 1, Len(b) - 1)).v + (b[Len(b)] - 48)]

goto_last_row(y, len) == Min(y, len - 1)

\* ed.cursor.y = y.min(ed.rows.len())
goto_row(y, len) == Min(y, len)

RECURSIVE trim(_)
\* str::trim on a buffer whose only white space is the space.
trim(b) ==
    IF b = <<>> THEN b
    ELSE IF b[1] = 32 THEN trim(Tail(b))
    ELSE IF b[Len(b)] = 32 THEN trim(SubSeq(b, 1, Len(b) - 1))
    ELSE b

\* The index (from 1) of the first `:` of the buffer, 0 when it has none.
first_colon(b) ==
    IF \E i \in DOMAIN b : b[i] = 58
    THEN CHOOSE i \in DOMAIN b :
             b[i] = 58 /\ \A j \in 1..(i - 1) : b[j] # 58
    ELSE 0

\* ed.cursor.x = ed.current_row().map_or(0, |r| r.rx2cx[rx]): the index
\* panics when rx is not below rx2cx.len().
goto_column(ed, rx) ==
    IF ed.cursor.y < Len(ed.rows)
    THEN IF rx >= Len(ed.rows[ed.cursor.y + 1].rx2cx) THEN panic(ed)
         ELSE [ed EXCEPT !.cursor.x = ed.rows[ed.cursor.y + 1].rx2cx[rx + 1]]
    ELSE [ed EXCEPT !.cursor.x = 0]

\* The Completed arm of the GoTo prompt: the buffer is split at its first
\* `:` into a line and a column, both counted from 1; with no `:` the
\* cursor goes to the line and cursor.x is clamped to it.
goto_completed(ed, b) ==
    LET i == first_colon(b)
        line == parse(trim(IF i = 0 THEN b ELSE SubSeq(b, 1, i - 1)))
        col == parse(trim(SubSeq(b, i + 1, Len(b))))
        at == [ed EXCEPT !.cursor.y =
                  goto_row(saturating_sub(line.v, 1), Len(ed.rows))]
    IN  IF ~line.ok THEN ed
        ELSE IF i = 0 THEN update_cursor_x_position(at)
        ELSE IF ~col.ok THEN ed
        ELSE goto_column(at, saturating_sub(col.v, 1))

\* The Find arm of PromptMode::process_keypress once the match_segment of
\* the last match has been cleared and process_prompt_keypress has
\* returned p.
find_prompt(pm, ed, k, p) ==
    IF p.state = "Active"
    THEN LET keeps == k \in {Arrow("Right"), Arrow("Down"), Arrow("Left"),
                              Arrow("Up"), Char(ctrl_key(70))}
             forward == k \notin {Arrow("Left"), Arrow("Up")}
             r == find(ed, p.buffer, IF keeps THEN pm.last_match ELSE None,
                       forward)
         IN  [prompt_mode |-> Find(p.buffer, pm.saved_cursor, r.ret),
              ed |-> r.ed]
    ELSE IF p.state = "Cancelled"
    THEN [prompt_mode |-> NoPrompt, ed |-> [ed EXCEPT !.cursor = pm.saved_cursor]]
    ELSE [prompt_mode |-> NoPrompt, ed |-> ed]

match_kept(ed, last_match) == ed

\* if let Some(row_idx) = last_match { ed.rows[row_idx].match_segment = None }
match_cleared(ed, last_match) ==
    IF last_match.some
    THEN [ed EXCEPT !.rows[last_match.v + 1].match_segment = NoSegment]
    ELSE ed

\* PromptMode::process_keypress for the Find and GoTo prompts: the prompt
\* mode it returns and the editor it leaves.
prompt_keypress(pm, ed, k) ==
    IF pm.mode = "Find"
    THEN find_prompt(pm, match_cleared(ed, pm.last_match), k,
                     process_prompt_keypress(pm.buffer, k))
    ELSE LET p == process_prompt_keypress(pm.buffer, k)
         IN  IF p.state = "Active"
             THEN [prompt_mode |-> GoTo(p.buffer), ed |-> ed]
             ELSE IF p.state = "Cancelled"
             THEN [prompt_mode |-> NoPrompt, ed |-> ed]
             ELSE [prompt_mode |-> NoPrompt, ed |-> goto_completed(ed, p.buffer)]

escape_arm_goes_home(ed) == [ed EXCEPT !.cursor.x = 0]

\* Key::Escape | Key::Char(REFRESH_SCREEN) => ()
escape_arm(ed) == ed

\* Key::PageDown: cursor.y = (roff + 2 * screen_rows - 1).min(rows.len()),
\* sum being roff + 2 * screen_rows.
page_down(ed, sum) ==
    update_cursor_x_position(
        [(IF sum = 0 THEN overflow(ed) ELSE ed) EXCEPT
            !.cursor.y = Min(wrapping_sub(sum, 1), Len(ed.rows))])

\* The arms of the match on key that do not return and open no prompt.
key_arm(ed, k) ==
    CASE k = Home -> [ed EXCEPT !.cursor.x = 0]
      [] k = End -> [ed EXCEPT !.cursor.x = current_row_len(ed)]
      [] k = Escape \/ k = Char(REFRESH_SCREEN) -> escape_arm(ed)
      [] k = PageUp ->
             update_cursor_x_position(
                 [ed EXCEPT !.cursor.y =
                     saturating_sub(ed.cursor.roff, ed.screen_rows)])
      [] k = PageDown -> page_down(ed, ed.cursor.roff + 2 * ed.screen_rows)
      [] k.k = "Arrow" -> move_cursor(ed, k.a, FALSE)
      [] k.k = "CtrlArrow" -> move_cursor(ed, k.a, TRUE)
      [] k \in {Char(13), Char(10)} -> insert_new_line(ed)
      [] k \in {Char(127), Char(ctrl_key(72))} -> delete_char(ed)
      [] k = Char(ctrl_key(82)) -> delete_current_row(ed)
      [] k = Delete -> delete_char(move_cursor(ed, "Right", FALSE))
      [] k = Char(ctrl_key(68)) -> paste_current_row(copy_current_row(ed))
      [] k = Char(ctrl_key(88)) -> delete_current_row(copy_current_row(ed))
      [] k = Char(ctrl_key(67)) -> copy_current_row(ed)
      [] k = Char(ctrl_key(86)) -> paste_current_row(ed)
      [] k \in {Char(ctrl_key(70)), Char(ctrl_key(71))} -> ed
      [] OTHER -> insert_byte(ed, k.b)

\* The prompt mode process_keypress returns for the key: Find and GoTo.
opened_prompt(ed, k) ==
    IF k = Char(ctrl_key(70)) THEN Find(<<>>, ed.cursor, None)
    ELSE IF k = Char(ctrl_key(71)) THEN GoTo(<<>>)
    ELSE NoPrompt

\* The arm of Key::Char(EXIT): quit at once when nothing is to be saved or
\* the countdown is over.
exit_arm(ed) ==
    IF ~ed.dirty \/ wrapping_sub(ed.quit_times, 1) = 0
    THEN [quit |-> TRUE,
          ed |-> IF ed.quit_times = 0 THEN overflow(ed) ELSE ed,
          prompt_mode |-> NoPrompt]
    ELSE [quit |-> FALSE,
          ed |-> [(IF ed.quit_times = 0 THEN overflow(ed) ELSE ed) EXCEPT
                     !.quit_times = wrapping_sub(@, 1)],
          prompt_mode |-> NoPrompt]

\* process_keypress: whether to quit, and the editor afterwards. Every key
\* but EXIT sets quit_times back to config.quit_times.
process_keypress(ed, k) ==
    IF k = Char(EXIT) THEN exit_arm(ed)
    ELSE [quit |-> FALSE,
          ed |-> [key_arm(ed, k) EXCEPT !.quit_times = ed.quit_conf],
          prompt_mode |-> opened_prompt(ed, k)]

\* process_keypress has returned r to Editor::run.
Processed(r) ==
    /\ rows' = r.ed.rows
    /\ cursor' = r.ed.cursor
    /\ dirty' = r.ed.dirty
    /\ n_bytes' = r.ed.n_bytes
    /\ quit_times' = r.ed.quit_times
    /\ copied_row' = r.ed.copied_row
    /\ prompt_mode' = r.prompt_mode
    /\ pc' = IF r.quit THEN "quit" ELSE "idle"

\* The thread panics: Editor::run never returns and the editor is left as
\* it was.
Panicked ==
    /\ pc' = "panic"
    /\ UNCHANGED <<rows, cursor, dirty, n_bytes, quit_times, copied_row,
                   prompt_mode>>

\* What becomes of the result r of a key press: a panic on an index out of
\* bounds, a panic or the wrapped values on an arithmetic overflow (the
\* build decides), and the values of r otherwise.
Outcome(r) ==
    IF r.ed.panicked THEN Panicked
    ELSE IF r.ed.overflowed THEN Panicked \/ Processed(r)
    ELSE Processed(r)

\* Editor::run hands the key to process_keypress (no prompt is open); the
\* document grows to MaxDocBytes bytes at most.
ProcessKeypress ==
    /\ pc = "done"
    /\ key \in ModelledKeys
    /\ key.k = "Char" /\ key.b \in InsertedBytes => n_bytes < MaxDocBytes
    /\ Processed(process_keypress(refresh_screen(Ed), key))
    /\ UNCHANGED <<syntax, tab_stop, quit_conf, screen_rows, wsc, window, arg_state, ret, last_upd, size, drawn,
                   seq, buffered, key, reg_c, reg_d, closed, prev, keyboard,
                   loop_state, file_name, disk>>

\* The next round of the loop of Editor::run.
NextRound == pc = "idle" /\ Call

\* Bytes of the keyboard of the run specification: Ctrl-Q, ESC, 3, H, [
\* and x.
RunBytes == {17, 27, 51, 72, 91, 120}

\* Editor::run with no file: one empty row, the default configuration.
InitRun ==
    /\ rows = <<Row_new(<<>>)>>
    /\ syntax = ConfDefault
    /\ tab_stop = MaxTab
    /\ TermIdle
    /\ arg_state = Unset /\ ret = Unset /\ last_upd = [y |-> 0, n |-> 0]
    /\ size = NoSize /\ drawn = NotDrawn
    /\ DecoderIdle /\ keyboard = RunBytes /\ EditorIdle

NextRun ==
    \/ NextRound
    \/ ReadFirst
    \/ ReadSecond
    \/ ReadThird
    \/ ReadD
    \/ ProcessKeypress

SpecRun == InitRun /\ [][NextRun]_vars

\* ----------------------------------------------- the editing specification
\* Editor::run with a prompt open: the key goes to the prompt, which never
\* asks to quit.
prompted(r) == [quit |-> FALSE, ed |-> r.ed, prompt_mode |-> r.prompt_mode]

\* The body of the loop of Editor::run once loop_until_keypress has returned
\* k: the match on self.prompt_mode.take().
run_body(pm, ed, k) ==
    IF ed.panicked THEN [quit |-> FALSE, ed |-> ed, prompt_mode |-> pm]
    ELSE IF pm = NoPrompt THEN process_keypress(ed, k)
    ELSE prompted(prompt_keypress(pm, ed, k))

RECURSIVE sum_len(_)
\* self.rows.iter().map(|row| row.chars.len() as u64).sum()
sum_len(rs) ==
    IF rs = <<>> THEN 0 ELSE Len(rs[1].chars) + sum_len(Tail(rs))

\* The document stays within MaxRows rows and MaxDocBytes bytes, n_bytes
\* within MaxDocBytes, and the prompt buffer within MaxBuffer bytes.
MaxBuffer == 3
\* The largest config.quit_times tried, and the most Ctrl-Q presses followed
\* once the count has wrapped.
MaxQuit == 3
BoundedBy(r, bytes) ==
    /\ r.ed.quit_times <= MaxQuit \/ r.ed.quit_times >= usize_MAX - MaxQuit
    /\ Len(r.ed.rows) <= MaxRows
    /\ sum_len(r.ed.rows) <= bytes
    /\ r.ed.n_bytes <= bytes
    /\ Len(r.prompt_mode.buffer) <= MaxBuffer

Bounded(r) == BoundedBy(r, MaxDocBytes)

\* The key k is pressed and handled, the loop of Editor::run being at `at`.
KeypressWithin(at, keys, bytes) ==
    /\ pc = at
    /\ \E k \in keys :
          /\ BoundedBy(run_body(prompt_mode, refresh_screen(Ed), k), bytes)
          /\ Outcome(run_body(prompt_mode, refresh_screen(Ed), k))
          /\ key' = k
    /\ UNCHANGED <<syntax, tab_stop, quit_conf, screen_rows, wsc, window,
                   arg_state, ret, last_upd, size, drawn, seq, buffered,
                   reg_c, reg_d, closed, prev, keyboard, loop_state,
                   file_name, disk>>

KeypressAt(at, keys) == KeypressWithin(at, keys, MaxDocBytes)

\* One round of the loop of Editor::run: the key k is pressed and handled.
Keypress(keys) == KeypressAt("idle", keys)

\* The editor with the rows of doc as Editor::load leaves them, any byte
\* possible on the keyboard.
InitEdit(docs, conf) ==
    /\ \E doc \in docs :
          /\ rows = update_all_rows([k \in 1..Len(doc) |-> Row_new(doc[k])],
                                    conf, MaxTab)
          /\ n_bytes = sum_len(rows)
    /\ syntax = conf
    /\ tab_stop = MaxTab
    /\ TermIdle
    /\ arg_state = Unset /\ ret = Unset /\ last_upd = [y |-> 0, n |-> 0]
    /\ size = NoSize /\ drawn = NotDrawn
    /\ DecoderIdle /\ keyboard = 0..255
    /\ cursor = CursorState /\ dirty = FALSE
    /\ quit_times = QuitTimes /\ copied_row = <<>>
    /\ prompt_mode = NoPrompt /\ file_name = FALSE /\ disk = NoDisk
    /\ loop_state = Unset

\* The editor without syntax highlighting.
InitDoc(docs) == InitEdit(docs, ConfDefault)

\* The keys of the editing specification: the digit 1, Enter, Backspace,
\* Delete, the arrows, and Ctrl-R, Ctrl-C, Ctrl-X, Ctrl-V and Ctrl-D.
EditKeys ==
    {Char(49), Char(13), Char(127), Delete, Arrow("Left"), Arrow("Right"),
     Arrow("Up"), Arrow("Down")} \cup
    {Char(ctrl_key(b)) : b \in {82, 67, 88, 86, 68}}

\* Editor::run with no file: editing from one empty row.
SpecEdit == InitDoc({<<<<>>>>}) /\ [][Keypress(EditKeys)]_vars

\* The keys of the prompt specification: the digit 1, the tab, Enter,
\* Escape, the arrows up and down, and Ctrl-F, Ctrl-G and Ctrl-Q.
PromptKeys ==
    {Char(49), Char(9), Char(13), Escape, Arrow("Up"), Arrow("Down")} \cup
    {Char(ctrl_key(b)) : b \in {70, 71, 81}}

\* Editor::run with no file: editing, searching and going to lines.
SpecPrompt == InitDoc({<<<<>>>>}) /\ [][Keypress(PromptKeys)]_vars

\* ------------------------------------------------ the highlight specification
\* The keys of the highlight specification: { and }, Enter, Backspace,
\* the arrows up and right, and Ctrl-R and Ctrl-D.
HighlightKeys ==
    {Char(123), Char(125), Char(13), Char(127), Arrow("Up"), Arrow("Right")}
    \cup {Char(ctrl_key(b)) : b \in {82, 68}}

\* Editing with a syntax whose multi-line comments go from { to }.
SpecHighlight ==
    InitEdit({<<<<>>>>}, ConfBrace) /\ [][Keypress(HighlightKeys)]_vars

\* -------------------------------------------------- the cursor specification
\* The most rows the terminal window is resized to.
MaxWindow == 3
\* The most bytes the document of the cursor specification grows to.
MaxCursorBytes == 3

\* Editor::new in a window of 1 to MaxWindow rows (update_window_size), and
\* Editor::run with no file.
InitCursor ==
    /\ rows = <<Row_new(<<>>)>> /\ n_bytes = 0
    /\ syntax = ConfDefault
    /\ tab_stop = MaxTab
    /\ quit_conf = QuitTimes /\ quit_times = QuitTimes
    /\ window \in 1..MaxWindow /\ screen_rows = usable_rows(window)
    /\ wsc = FALSE
    /\ arg_state = Unset /\ ret = Unset /\ last_upd = [y |-> 0, n |-> 0]
    /\ size = NoSize /\ drawn = NotDrawn
    /\ DecoderIdle /\ keyboard = 0..255
    /\ cursor = CursorState /\ dirty = FALSE
    /\ copied_row = <<>>
    /\ prompt_mode = NoPrompt /\ file_name = FALSE /\ disk = NoDisk
    /\ loop_state = Unset

\* The keys that move the cursor only.
MovementKeys ==
    {Arrow(a) : a \in {"Left", "Right", "Up", "Down"}} \cup
    {CtrlArrow(a) : a \in {"Left", "Right"}} \cup
    {Home, End, PageUp, PageDown}

\* The keys of the cursor specification: the movement keys, the digit 1,
\* Enter, Backspace, Ctrl-C and Ctrl-V.
CursorKeys ==
    MovementKeys \cup
    {Char(49), Char(13), Char(127), Char(ctrl_key(67)), Char(ctrl_key(86))}

SpecCursor ==
    InitCursor /\ [][KeypressWithin("idle", CursorKeys, MaxCursorBytes)]_vars

\* The keys of the character specification: the movement keys, the digit 1,
\* the two bytes CC 81 of U+0301 (a combining mark: two bytes, no column),
\* Enter and Backspace.
UnicodeKeys ==
    MovementKeys \cup {Char(49), Char(204), Char(129), Char(13), Char(127)}

\* Editor::run with no file in a window of WindowRows rows.
SpecUnicode ==
    /\ InitDoc({<<<<>>>>})
    /\ [][KeypressWithin("idle", UnicodeKeys, MaxCursorBytes)]_vars

\* --------------------------------------------------- the go-to specification
\* The keys of the go-to specification: the digits 1 and 2, the colon,
\* Enter, Escape and Ctrl-G.
GoToKeys ==
    {Char(49), Char(50), Char(58), Char(13), Escape, Char(ctrl_key(71))}

\* Editing and going to lines and columns, from an empty file.
SpecGoTo == InitDoc({<<<<>>>>}) /\ [][Keypress(GoToKeys)]_vars

\* ---------------------------------------------------- the quit specification
\* Editor::new with quit_times = N in the configuration file, any N from 0
\* to MaxQuit, and Editor::run with no file.
InitQuit ==
    /\ rows = <<Row_new(<<>>)>> /\ n_bytes = 0
    /\ syntax = ConfDefault
    /\ tab_stop = MaxTab
    /\ quit_conf \in 0..MaxQuit /\ quit_times = quit_conf
    /\ window = WindowRows /\ screen_rows = usable_rows(WindowRows)
    /\ wsc = FALSE
    /\ arg_state = Unset /\ ret = Unset /\ last_upd = [y |-> 0, n |-> 0]
    /\ size = NoSize /\ drawn = NotDrawn
    /\ DecoderIdle /\ keyboard = 0..255
    /\ cursor = CursorState /\ dirty = FALSE
    /\ copied_row = <<>>
    /\ prompt_mode = NoPrompt /\ file_name = FALSE /\ disk = NoDisk
    /\ loop_state = Unset

\* The keys of the quit specification: the digit 1, Backspace, the arrow
\* left, Escape and Ctrl-Q.
QuitKeys == {Char(49), Char(127), Arrow("Left"), Escape, Char(EXIT)}

SpecQuit == InitQuit /\ [][Keypress(QuitKeys)]_vars

\* -------------------------------------------------- the resize specification
handle_wsize_leaves(flag) == flag

\* handle_wsize: WSC.store(true, Relaxed).
handle_wsize(flag) == TRUE

\* WSC.swap(false, Relaxed): the value read and the value left, in one step.
swap(flag, v) == [old |-> flag, new |-> v]

\* The editor runs: it has neither returned from Editor::run nor panicked.
Running == pc \notin {"quit", "panic"}

\* The window is resized and SIGWINCH is delivered, at any point of the
\* key loop.
HandleWsize ==
    /\ Running
    /\ window' \in 1..MaxWindow
    /\ wsc' = handle_wsize(wsc)
    /\ UNCHANGED <<rows, syntax, tab_stop, arg_state, ret, last_upd, size,
                   drawn, pc, seq, buffered, key, reg_c, reg_d, closed, prev,
                   keyboard, cursor, dirty, n_bytes, quit_times, loop_state,
                   copied_row, prompt_mode, file_name, disk, quit_conf,
                   screen_rows>>

\* The top of the loop of loop_until_keypress: has_window_size_changed.
Poll ==
    /\ pc = "idle"
    /\ wsc' = swap(wsc, FALSE).new
    /\ pc' = IF swap(wsc, FALSE).old THEN "update" ELSE "read"
    /\ UNCHANGED <<rows, syntax, tab_stop, arg_state, ret, last_upd, size,
                   drawn, seq, buffered, key, reg_c, reg_d, closed, prev,
                   keyboard, cursor, dirty, n_bytes, quit_times, loop_state,
                   copied_row, prompt_mode, file_name, disk, quit_conf,
                   screen_rows, window>>

\* update_window_size and refresh_screen after a resize; when the size of
\* the window cannot be read the error ends Editor::run.
UpdateWindowSize ==
    /\ pc = "update"
    /\ \/ /\ screen_rows' = usable_rows(window)
          /\ cursor' = scroll([Ed EXCEPT
                                  !.screen_rows = usable_rows(window)]).cursor
          /\ pc' = "read"
       \/ /\ pc' = "quit"
          /\ UNCHANGED <<screen_rows, cursor>>
    /\ UNCHANGED <<rows, syntax, tab_stop, arg_state, ret, last_upd, size,
                   drawn, seq, buffered, key, reg_c, reg_d, closed, prev,
                   keyboard, dirty, n_bytes, quit_times, loop_state,
                   copied_row, prompt_mode, file_name, disk, quit_conf,
                   wsc, window>>

\* bytes.next() yields None after the 100 ms of the terminal (VTIME = 1):
\* the loop goes round.
Timeout ==
    /\ pc = "read"
    /\ pc' = "idle"
    /\ UNCHANGED <<rows, syntax, tab_stop, arg_state, ret, last_upd, size,
                   drawn, seq, buffered, key, reg_c, reg_d, closed, prev,
                   keyboard, cursor, dirty, n_bytes, quit_times, loop_state,
                   copied_row, prompt_mode, file_name, disk, quit_conf,
                   screen_rows, wsc, window>>

\* The keys of the resize specification: the digit 1, Enter, the arrows up
\* and down, and Ctrl-Q.
ResizeKeys ==
    {Char(49), Char(13), Arrow("Up"), Arrow("Down"), Char(EXIT)}

\* loop_until_keypress returns a key and Editor::run handles it.
KeyRead == KeypressAt("read", ResizeKeys)

NextResize ==
    \/ HandleWsize
    \/ Poll
    \/ UpdateWindowSize
    \/ Timeout
    \/ KeyRead

SpecResize == InitDoc({<<<<>>>>}) /\ [][NextResize]_vars

\* The key loop keeps running: every poll, update and read that can be done
\* is done.
SpecResizeFair ==
    /\ SpecResize
    /\ WF_vars(Poll)
    /\ WF_vars(UpdateWindowSize)
    /\ WF_vars(Timeout \/ KeyRead)

\* ---------------------------------------------------- the file specification
RECURSIVE split(_)
\* BufReader::new(&file).split(b'\n'): the segments up to each newline, and
\* the bytes after the last newline if there are any.
split(bytes) ==
    IF bytes = <<>> THEN <<>>
    ELSE LET ends == {i \in DOMAIN bytes : bytes[i] = 10}
         IN  IF ends = {} THEN <<bytes>>
             ELSE LET i == CHOOSE e \in ends : \A f \in ends : e <= f
                  IN  <<SubSeq(bytes, 1, i - 1)>> \o
                      split(SubSeq(bytes, i + 1, Len(bytes)))

\* file.bytes().next() at position pos: the byte there, None at the end.
next_byte(bytes, pos) ==
    IF pos < Len(bytes) THEN Some(bytes[pos + 1]) ELSE None

\* .map_or(true, |b| b == b'\n') on the byte read after the seek.
ends_with_empty_line(b) == IF b.some THEN b.v = 10 ELSE TRUE

\* Editor::load: the rows of the file, or one empty row if there is no file.
load(d) ==
    IF ~d.exists THEN <<Row_new(<<>>)>>
    ELSE LET lines == split(d.bytes)
             pushed == [k \in 1..Len(lines) |-> Row_new(lines[k])]
         IN  update_all_rows(
                 \* file.seek(io::SeekFrom::End(0)): the position after the
                 \* last byte, Len(d.bytes).
                 IF ends_with_empty_line(next_byte(d.bytes, Len(d.bytes)))
                 THEN Append(pushed, Row_new(<<>>)) ELSE pushed,
                 ConfDefault, MaxTab)

RECURSIVE save(_)
\* Editor::save: the chars of every row, a newline after each but the last.
save(rs) ==
    IF rs = <<>> THEN <<>>
    ELSE IF Len(rs) = 1 THEN rs[1].chars
    ELSE rs[1].chars \o <<10>> \o save(Tail(rs))

\* The chars of the rows.
contents(rs) == [k \in 1..Len(rs) |-> rs[k].chars]

SAVE == ctrl_key(83)

\* Key::Char(SAVE) with a file name and no prompt open: the file is written
\* and dirty is set to false, or File::create fails and both stay as they
\* are (self.dirty &= saved.is_err()).
SaveKey ==
    /\ pc = "idle" /\ prompt_mode = NoPrompt /\ file_name
    /\ \/ /\ disk' = [exists |-> TRUE, bytes |-> save(rows),
                      saved |-> Some(contents(rows)), err |-> FALSE]
          /\ dirty' = FALSE
       \/ /\ disk' = [disk EXCEPT !.err = TRUE]
          /\ UNCHANGED dirty
    /\ quit_times' = quit_conf
    /\ key' = Char(SAVE)
    /\ UNCHANGED <<rows, cursor, n_bytes, copied_row, prompt_mode, pc, syntax,
                   tab_stop, quit_conf, screen_rows, wsc, window, arg_state, ret, last_upd, size, drawn, seq,
                   buffered, reg_c, reg_d, closed, prev, keyboard, loop_state,
                   file_name>>

\* The longest file (in bytes) of the file specification.
MaxFile == 2

\* Editor::run with a file name, up to its loop: a new editor loads the
\* file on disk.
RunFile ==
    /\ pc \in {"idle", "quit"}
    /\ Len(load(disk)) <= MaxRows
    /\ rows' = load(disk)
    /\ n_bytes' = sum_len(load(disk))
    /\ cursor' = CursorState /\ dirty' = FALSE
    /\ quit_times' = quit_conf /\ copied_row' = <<>>
    /\ prompt_mode' = NoPrompt /\ file_name' = TRUE
    /\ pc' = "idle"
    /\ UNCHANGED <<syntax, tab_stop, quit_conf, screen_rows, wsc, window, arg_state, ret, last_upd, size, drawn,
                   seq, buffered, key, reg_c, reg_d, closed, prev, keyboard,
                   loop_state, disk>>

\* The files on disk when the editor starts: none, or up to MaxFile bytes
\* of `a` and newlines, not written by the editor.
InitFile ==
    /\ \E d \in {NoDisk} \cup
                 {[exists |-> TRUE, bytes |-> b, saved |-> None,
                   err |-> FALSE] :
                      b \in Strings({10, 97}, MaxFile)} :
          /\ disk = d
          /\ rows = load(d)
          /\ n_bytes = sum_len(load(d))
    /\ syntax = ConfDefault
    /\ tab_stop = MaxTab
    /\ TermIdle
    /\ arg_state = Unset /\ ret = Unset /\ last_upd = [y |-> 0, n |-> 0]
    /\ size = NoSize /\ drawn = NotDrawn
    /\ DecoderIdle /\ keyboard = 0..255
    /\ cursor = CursorState /\ dirty = FALSE
    /\ quit_times = QuitTimes /\ copied_row = <<>>
    /\ prompt_mode = NoPrompt /\ file_name = TRUE
    /\ loop_state = Unset

\* The keys of the file specification: the letter a, Enter, Backspace and
\* Ctrl-Q; Ctrl-S is the action SaveKey.
FileKeys == {Char(97), Char(13), Char(127), Char(EXIT)}

NextFile ==
    \/ Keypress(FileKeys)
    \/ SaveKey
    \/ RunFile

\* Editor::run with a file name: loading, editing, saving, and running the
\* editor again on the file.
SpecFile == InitFile /\ [][NextFile]_vars

InitKey == RowsIdle /\ DecoderIdle /\ keyboard = KeyBytes /\ EditorIdle

NextKey ==
    \/ Call
    \/ ReadFirst
    \/ ReadSecond
    \/ ReadThird
    \/ ReadD
    \/ ReadC2
    \/ ReadD2

SpecKey == InitKey /\ [][NextKey]_vars

\* ------------------------------------------------------------ the claims
Row1 == rows[1]
Updated == ret # Unset
Last(s) == s[Len(s)]
NonDecreasing(s) == \A k \in 1..(Len(s) - 1) : s[k] <= s[k + 1]

RECURSIVE char_starts(_, _)
\* The offsets (0-based) of bytes at which a decoded character starts, from
\* position i (1-based) on.
char_starts(bytes, i) ==
    IF i > Len(bytes) THEN {}
    ELSE {i - 1} \cup char_starts(bytes, i + next_char(bytes, i).n)

RECURSIVE WellFormed(_)
\* The bytes are well-formed UTF-8: no character decodes to U+FFFD.
WellFormed(bytes) ==
    \/ bytes = <<>>
    \/ LET ch == next_char(bytes, 1)
       IN  /\ ch.cp # REPLACEMENT_CHARACTER
           /\ WellFormed(SubSeq(bytes, ch.n + 1, Len(bytes)))

\* C1: after Row::update, for every byte offset b at which a decoded
\* character starts, rx2cx[cx2rx[b]] = b, zero-width characters included
\* (stated on well-formed lines, where the offsets of the characters in chars
\* are their offsets in the decoded string).
C1_RoundTrip ==
    Updated /\ WellFormed(Row1.chars) =>
        \A b \in char_starts(Row1.chars, 1) :
            Row1.rx2cx[Row1.cx2rx[b + 1] + 1] = b

\* C2: after Row::update, cx2rx and rx2cx are both non-decreasing.
C2_Monotone ==
    Updated => NonDecreasing(Row1.cx2rx) /\ NonDecreasing(Row1.rx2cx)

\* A row with a character of several bytes and a character of several
\* columns has been updated.
C2_Witness ==
    /\ Updated
    /\ \E k \in 1..(Len(Row1.cx2rx) - 1) : Row1.cx2rx[k] = Row1.cx2rx[k + 1]
    /\ \E k \in 1..(Len(Row1.rx2cx) - 1) : Row1.rx2cx[k] = Row1.rx2cx[k + 1]
    /\ \E k \in 1..(Len(Row1.cx2rx) - 1) : Row1.cx2rx[k] < Row1.cx2rx[k + 1]

\* C3: after Row::update on any bytes, well-formed UTF-8 or not, cx2rx has
\* chars.len() + 1 entries, the last one the number of rendered columns, and
\* rx2cx has that number plus one entries, the last one chars.len().
C3_Lengths ==
    Updated =>
        /\ Len(Row1.cx2rx) = Len(Row1.chars) + 1
        /\ Len(Row1.rx2cx) = Last(Row1.cx2rx) + 1
        /\ Last(Row1.rx2cx) = Len(Row1.chars)

\* C4: after Row::update, hl has exactly one entry per byte of render.
C4_OneClassPerByte ==
    Updated => Len(Row1.hl) = Len(Row1.render)

\* C5: the state Row::update returns is the stored hl_state and is never
\* String(_), whatever the line, the configuration and the incoming state.
C5_NoStringState ==
    Updated => ret = Row1.hl_state /\ ret.t # "String"

\* A row has been updated whose tokenizer loop ended inside a single-line
\* string.
C5_Witness ==
    /\ Updated
    /\ syntax_loop(Row1.render, syntax, <<>>, arg_state).st.t = "String"

\* The rows of the block-construct table the configuration fills.
BlockRows(conf) ==
    {ml_table(conf)[k] : k \in {k \in 1..2 : ml_table(conf)[k].delims # <<>>}}

\* A byte of plain text: a space, a digit or a letter.
PlainByte(c) == c = 32 \/ is_ascii_digit(c) \/ (c >= 97 /\ c <= 122)

\* C6, first half: a line tokenized from Normal whose plain text is followed
\* by a block start delimiter with no end delimiter after it has the block
\* class on every byte from the delimiter to the end of the line, and the
\* block state is returned.
C6_BlockOpens ==
    Updated /\ arg_state = Normal =>
        \A e \in BlockRows(syntax), p \in 0..(Len(Row1.render) - 1) :
            LET start == e.delims[1][1]
                end == e.delims[1][2]
            IN  /\ find_str(Row1.render, p, start)
                /\ \A k \in 1..p : PlainByte(Row1.render[k])
                /\ \A k \in (p + Len(start))..(Len(Row1.render) - 1) :
                      ~find_str(Row1.render, k, end)
                => /\ \A k \in (p + 1)..Len(Row1.render) : Row1.hl[k] = e.mtype
                   /\ ret = e.mstate

\* C6, second half: a line tokenized from a block state has the block class
\* on every byte up to and including the first end delimiter, and the rest of
\* the line is tokenized as a line of its own from Normal would be.
C6_BlockCloses ==
    Updated =>
        \A e \in BlockRows(syntax), q \in 0..(Len(Row1.render) - 1) :
            LET end == e.delims[1][2]
                rest == SubSeq(Row1.render, q + Len(end) + 1, Len(Row1.render))
                u == update_syntax(rest, syntax, Normal)
            IN  /\ arg_state = e.mstate
                /\ find_str(Row1.render, q, end)
                /\ \A k \in 0..(q - 1) : ~find_str(Row1.render, k, end)
                => /\ \A k \in 1..(q + Len(end)) : Row1.hl[k] = e.mtype
                   /\ SubSeq(Row1.hl, q + Len(end) + 1, Len(Row1.hl)) = u.hl
                   /\ ret = u.hl_state

\* C6: block constructs span lines.
C6_BlocksSpanLines == C6_BlockOpens /\ C6_BlockCloses

\* The keywords of a configuration, each with its class.
KeywordPairs(conf) ==
    UNION {{<<conf.keywords[k][1], conf.keywords[k][2][j]>> :
               j \in 1..Len(conf.keywords[k][2])} : k \in 1..Len(conf.keywords)}

\* C8: an occurrence of a configured keyword has the keyword's class only if
\* the byte before it and the byte after it are separators (or the line's
\* bounds): a prefix or a suffix of a longer identifier stays Normal.
C8_KeywordBoundaries ==
    Updated /\ arg_state = Normal =>
        \A kp \in KeywordPairs(syntax), p \in 0..(Len(Row1.render) - 1) :
            /\ find_str(Row1.render, p, kp[2])
            /\ \A k \in (p + 1)..(p + Len(kp[2])) : Row1.hl[k] = kp[1]
            => /\ p = 0 \/ is_sep(Row1.render[p])
               /\ s_filter(Row1.render, p, kp[2])

\* Every row is as update_all_rows would leave it.
C7_Retokenized == rows = update_all_rows(rows, syntax, tab_stop)

\* A call update_row(y, false) that updated n rows changed the outgoing
\* state of each of them but the last, left the outgoing state of the last
\* as it was unless that row ends the file, and touched no other row.
C7_StopsAtFirstStable ==
    LET y == last_upd'.y
        n == last_upd'.n
    IN  /\ n >= 1 /\ y + n <= Len(rows) /\ Len(rows') = Len(rows)
        /\ \A k \in (y + 1)..(y + n - 1) : rows'[k].hl_state # rows[k].hl_state
        /\ y + n = Len(rows) \/ rows'[y + n].hl_state = rows[y + n].hl_state
        /\ \A k \in 1..Len(rows) : k <= y \/ k > y + n => rows'[k] = rows[k]

\* C7: early-exit propagation is exact. After the bytes of row y alone have
\* changed and update_row(y, false) has run, every row's hl and hl_state are
\* those update_all_rows gives, and the propagation has stopped at the first
\* row whose outgoing state equals its previous hl_state, or at end of file.
C7_EarlyExitExact == [](C7_Retokenized) /\ [][C7_StopsAtFirstStable]_vars

\* An update_row that went past row y and stopped before the end of the file.
C7_Witness ==
    /\ last_upd.n >= 2
    /\ last_upd.y + last_upd.n < Len(rows)

\* loop_until_keypress has returned a key and every read of the call
\* yielded a byte.
Decoded ==
    /\ pc = "done"
    /\ \A k \in 1..Len(seq) : seq[k] \in KeyBytes

AKeyOf(byte) ==
    CASE byte \in {65, 97} -> "Up"
      [] byte \in {66, 98} -> "Down"
      [] byte \in {67, 99} -> "Right"
      [] byte \in {68, 100} -> "Left"

\* The key of ESC [ c d in the table of the claim.
ParamTable(c, d) ==
    IF d = 126 /\ c \in {49, 55} THEN Home
    ELSE IF d = 126 /\ c \in {52, 56} THEN End
    ELSE IF d = 126 /\ c = 51 THEN Delete
    ELSE IF d = 126 /\ c = 53 THEN PageUp
    ELSE IF d = 126 /\ c = 54 THEN PageDown
    ELSE IF c = 53 /\ d \in 65..68 THEN CtrlArrow(AKeyOf(d))
    ELSE Escape

\* The decision table of the claim, read off the bytes of one key.
ClaimTable(s) ==
    IF s[1] # 27 THEN Char(s[1])
    ELSE IF Len(s) = 3 /\ s[2] = 91 /\ s[3] \in 65..68 THEN Arrow(AKeyOf(s[3]))
    ELSE IF Len(s) = 3 /\ s[2] \in {91, 79} /\ s[3] = 72 THEN Home
    ELSE IF Len(s) = 3 /\ s[2] \in {91, 79} /\ s[3] = 70 THEN End
    ELSE IF Len(s) = 3 /\ s[2] = 79 /\ s[3] \in 97..100
    THEN CtrlArrow(AKeyOf(s[3]))
    ELSE IF Len(s) = 4 /\ s[2] = 91 THEN ParamTable(s[3], s[4])
    ELSE Escape

\* The table with the elided prefix: ESC [ 1 ; c d is read as ESC [ c d.
ElidingTable(s) ==
    IF Len(s) = 6 /\ s[1] = 27 /\ s[2] = 91 /\ s[3] = 49 /\ s[4] = 59
    THEN ParamTable(s[5], s[6])
    ELSE ClaimTable(s)

\* C9 as stated: when all needed bytes are available, the key returned is
\* the key of the claim's decision table, and every sequence starting with
\* ESC that the table does not list gives Escape.
C9_DecisionTable == Decoded => key = ClaimTable(seq)

\* C9 as amended: when all needed bytes are available, the key returned is
\* the key of the claim's decision table after ESC [ 1 ; c d has been read
\* as ESC [ c d; every other sequence starting with ESC gives Escape.
C9_DecisionTableEliding == Decoded => key = ElidingTable(seq)

\* A key has been decoded from a sequence with the elided 1 ; prefix that
\* is not Escape.
C9_Witness ==
    /\ Decoded
    /\ Len(seq) = 6
    /\ key # Escape

\* A read of the call found no byte after a partial escape sequence.
Starved == \E k \in 2..Len(seq) : seq[k] = NoByte

HitEnd == \E k \in 2..Len(seq) : seq[k] = EndOfStream

\* C11: when the byte source reaches its end of stream in the middle of an
\* escape sequence, loop_until_keypress returns a read error and never
\* Key::Escape.
C11_EndOfStreamIsError == pc = "done" /\ HitEnd => key = ReadError

\* The results of the reads of the call.
Reads == {seq[k] : k \in 1..Len(seq)}

\* C13: an I/O error of the byte source at any read position of the decoder
\* (first byte, introducer, third byte, parameter bytes, bytes after the
\* elided 1 ; prefix) ends the call with that error; no read error is turned
\* into a key or ignored, and no error is returned without a failed read.
C13_ErrorsPropagate ==
    /\ IoError \in Reads =>
          pc = "done" /\ key = ReadError /\ Last(seq) = IoError
    /\ key = ReadError => IoError \in Reads

\* The read after ESC [ 1 ; 5 failed and the call returned the error.
C13_Witness ==
    /\ pc = "done"
    /\ Len(seq) = 6
    /\ seq[5] = 53
    /\ seq[6] = IoError
    /\ key = ReadError

\* The call has decoded ESC [ 1 ; c d for the (c, d) of the latest decode of
\* ESC [ c d.
SameTail ==
    /\ Decoded
    /\ Len(seq) = 6
    /\ <<seq[1], seq[2], seq[3], seq[4]>> = <<27, 91, 49, 59>>
    /\ <<seq[5], seq[6]>> = <<prev.c, prev.d>>

\* C14: for every tail (c, d) that the parameter table maps to a key,
\* ESC [ 1 ; c d decodes to the same key as ESC [ c d, and that key is not
\* Escape; ESC [ 5 C and ESC [ 1 ; 5 C both give CtrlArrow(Right).
C14_PrefixElided ==
    /\ prev.c # NoByte => prev.key \notin {NoKey, Escape, ReadError}
    /\ SameTail => key = prev.key
    /\ SameTail /\ <<prev.c, prev.d>> = <<53, 67>> => key = CtrlArrow("Right")

\* ESC [ 1 ; 5 C has been decoded after ESC [ 5 C.
C14_Witness ==
    /\ SameTail
    /\ <<prev.c, prev.d>> = <<53, 67>>
    /\ key = CtrlArrow("Right")

\* The number of bytes the call has read.
BytesRead == Cardinality({k \in 1..Len(seq) : seq[k] \in KeyBytes})

\* The order of the reads of one call.
ReadNo(p) ==
    CASE p = "first" -> 1 [] p = "second" -> 2 [] p = "third" -> 3
      [] p = "d" -> 4 [] p = "c2" -> 5 [] p = "d2" -> 6 [] OTHER -> 7

\* C15 as stated: one key decode reads at most 5 bytes in total (4 bytes
\* of lookahead after the first byte of the key).
C15_FiveBytes == BytesRead <= 5

\* The reads of a call are never revisited: a step either starts a new call
\* or appends the result of one read, moves to a later read of the call, and
\* leaves a key already returned as it is.
C15_NoBacktrack ==
    \/ seq' = <<>> /\ pc' = "first"
    \/ /\ seq' = seq \/ (Len(seq') = Len(seq) + 1 /\ SubSeq(seq', 1, Len(seq)) = seq)
       /\ ReadNo(pc') >= ReadNo(pc)
       /\ seq' # seq => ReadNo(pc') > ReadNo(pc) /\ Len(seq) = ReadNo(pc) - 1
       /\ key # NoKey => key' = key

\* C15 as amended: one key decode reads at most 5 bytes of lookahead after
\* the first byte of the key (6 in total), the fifth and the sixth only after
\* ESC [ 1 ; and it never backtracks.
C15_SixBytes ==
    /\ [](/\ Len(seq) <= 6
          /\ Len(seq) >= 5 =>
                <<seq[1], seq[2], seq[3], seq[4]>> = <<27, 91, 49, 59>>)
    /\ [][C15_NoBacktrack]_vars

\* A call has read six bytes and returned a key for them.
C15_Witness ==
    /\ pc = "done"
    /\ BytesRead = 6
    /\ key = PageDown

RECURSIVE chars_at(_, _, _, _)
\* The characters of chars from byte i (1-based) and render column rx on:
\* for each its column, its number of bytes in chars and its code point.
chars_at(bytes, i, rx, tab) ==
    IF i > Len(bytes) THEN {}
    ELSE LET ch == next_char(bytes, i)
         IN  {[col |-> rx, n |-> ch.n, cp |-> ch.cp, at |-> i - 1]} \cup
             chars_at(bytes, i + ch.n, rx + n_rend_chars(ch.cp, rx, tab), tab)

\* C19: for every updated row and every render column col at which a
\* character starts, get_char_size(col) is the number of bytes of that one
\* character in chars (1 for a tab); for the last column, the one after the
\* last character, it is 1.
C19_CharSize ==
    size # NoSize =>
        /\ \A ch \in chars_at(Row1.chars, 1, 0, tab_stop) :
              ch.col = size.rx => size.n = ch.n
        /\ size.rx = Len(Row1.rx2cx) - 1 => size.n = 1

\* C19 on the rows the other code bugs leave alone: well-formed UTF-8 with
\* no zero-width character.
C19_CharSizePlain ==
    /\ size # NoSize
    /\ WellFormed(Row1.chars)
    /\ \A ch \in chars_at(Row1.chars, 1, 0, tab_stop) : n_rend_chars(ch.cp, ch.col, tab_stop) > 0
    => C19_CharSize

\* The tab at byte offset tb.at of chars, met at column tb.col, is rendered
\* as t - (col mod t) spaces, the next character starts at a multiple of t,
\* and each column of the tab maps back to the tab's byte offset.
TabExpanded(tb) ==
    LET w == tab_stop - (tb.col % tab_stop)
    IN  /\ \A k \in tb.col..(tb.col + w - 1) :
              /\ \E r \in chars_at(Row1.render, 1, 0, tab_stop) :
                    r.col = k /\ r.cp = 32
              /\ Row1.rx2cx[k + 1] = tb.at
        /\ \A ch \in chars_at(Row1.chars, 1, 0, tab_stop) :
              ch.at > tb.at => ch.col >= tb.col + w
        /\ \E ch \in chars_at(Row1.chars, 1, 0, tab_stop) \cup
                      {[col |-> Len(Row1.rx2cx) - 1, at |-> Len(Row1.chars)]} :
              /\ ch.at = tb.at + 1
              /\ ch.col = tb.col + w
              /\ ch.col % tab_stop = 0

\* C20: for every line and tab width t >= 1, a tab met at render column c
\* is rendered as exactly t - (c mod t) spaces, the character after it
\* starts at a column that is a multiple of t, and every column of the tab
\* maps back through rx2cx to the tab's byte offset.
C20_TabExpansion ==
    Updated =>
        \A tb \in chars_at(Row1.chars, 1, 0, tab_stop) :
            tb.cp = 9 => TabExpanded(tb)

\* C20 on well-formed lines.
C20_TabExpansionWellFormed ==
    WellFormed(Row1.chars) => C20_TabExpansion

\* The characters of render, and the indices in the buffer of the
\* characters draw wrote: the j-th is the character offset + j of render.
RenderChars == code_points(Row1.render, 1)
Written == {i \in 1..Len(drawn.out) : drawn.out[i].t = "char"}
NthWritten(j) ==
    CHOOSE i \in Written : Cardinality({h \in Written : h < i}) = j - 1

\* The color in force at index i of the buffer as draw set it: the latest
\* ESC [ v m before i that is neither the reset nor the inverse video, the
\* default foreground color if there is none.
ColorBefore(i) ==
    LET set == {h \in 1..(i - 1) :
                   drawn.out[h].t = "sgr" /\ drawn.out[h].v \notin {0, 7}}
    IN  IF set = {} THEN to_string("Normal")
        ELSE drawn.out[CHOOSE h \in set : \A g \in set : g <= h]

\* The j-th character written is the control character c, shown as the
\* character shown in inverse video, followed by a reset and by the color
\* that was in force before it unless that is the default.
ControlShown(j, shown) ==
    LET i == NthWritten(j)
    IN  /\ drawn.out[i] = Ch(shown)
        /\ i > 1 /\ drawn.out[i - 1] = REVERSE_VIDEO
        /\ drawn.out[i + 1] = RESET_FMT
        /\ ColorBefore(i - 1) # to_string("Normal") =>
              /\ i + 2 <= Len(drawn.out)
              /\ drawn.out[i + 2] = ColorBefore(i - 1)

\* C18 as stated: draw renders every control byte below 32 as '@' + byte
\* and byte 127 as '?', in inverse video followed by a reset, and then
\* re-emits the highlight color that was active before it.
C18_ControlBelow32 ==
    drawn.done =>
        \A j \in 1..Cardinality(Written) :
            LET c == RenderChars[drawn.offset + j]
            IN  /\ c <= 31 => ControlShown(j, 64 + c)
                /\ c = 127 => ControlShown(j, 63)

\* C18 as amended: draw renders every control byte up to 26 as '@' + byte
\* and the bytes 27 to 31 and 127 as '?', in inverse video followed by a
\* reset, and then re-emits the highlight color that was active before it.
C18_ControlUpTo26 ==
    drawn.done =>
        \A j \in 1..Cardinality(Written) :
            LET c == RenderChars[drawn.offset + j]
            IN  /\ c <= 26 => ControlShown(j, 64 + c)
                /\ (c >= 27 /\ c <= 31) \/ c = 127 => ControlShown(j, 63)

\* ESC has been drawn as '?' after a digit, and the color of the number
\* has been emitted again behind it.
C18_Witness ==
    /\ drawn.done
    /\ \E j \in 2..Cardinality(Written) :
          /\ RenderChars[drawn.offset + j] = 27
          /\ drawn.out[NthWritten(j)] = Ch(63)
          /\ drawn.out[NthWritten(j) + 2] = to_string("Number")

\* The render column at which the k-th character of render starts, and the
\* one after its last column.
Col(k) == width_sum(RenderChars, k - 1)
ColEnd(k) == width_sum(RenderChars, k)

\* The indices in render of the characters draw wrote.
DrawnChars == (drawn.offset + 1)..(drawn.offset + Cardinality(Written))

\* C16: draw(start_col, max_cols) writes exactly the characters of render
\* that occupy the render columns [start_col, start_col + max_cols): every
\* character it writes has a column in that window, every character that
\* lies in the window is written, and they are written as they are.
C16_ColumnWindow ==
    drawn.done =>
        LET lo == drawn.offset
            hi == drawn.offset + drawn.max_len
        IN  /\ \A k \in DrawnChars : Col(k) < hi /\ ColEnd(k) > lo
            /\ \A k \in 1..Len(RenderChars) :
                  Col(k) >= lo /\ ColEnd(k) <= hi => k \in DrawnChars
            /\ \A j \in 1..Cardinality(Written) :
                  drawn.out[NthWritten(j)] = Ch(RenderChars[drawn.offset + j])

\* C16 on the lines of one-column characters.
C16_ColumnWindowNarrow ==
    (\A k \in 1..Len(RenderChars) : width_or_1(RenderChars[k]) = 1)
        => C16_ColumnWindow

\* The terminal shows what is written at index i of the buffer on the
\* match background: the latest of ESC [ 46 m and the reset before i is
\* ESC [ 46 m.
MatchBackground(i) ==
    LET set == {h \in 1..(i - 1) :
                   drawn.out[h] \in {to_string("Match"), RESET_FMT}}
    IN  /\ set # {}
        /\ drawn.out[CHOOSE h \in set : \A g \in set : g <= h] =
               to_string("Match")

\* C17: with match_segment = [a, b), draw shows on the match background
\* exactly the characters it writes whose column lies in [a, b): the
\* background is reset for the first character at column b, whatever that
\* character is, no character at a column >= b is shown on it, and the
\* buffer ends with a reset.
C17_MatchOverlay ==
    drawn.done /\ drawn.segment.some =>
        /\ \A j \in 1..Cardinality(Written) :
              MatchBackground(NthWritten(j)) <=>
                  contains(drawn.segment, Col(drawn.offset + j))
        /\ Last(drawn.out) = RESET_FMT

\* C17 on the lines with no control character.
C17_MatchOverlayPrintable ==
    (\A k \in 1..Len(RenderChars) : ~is_ascii_control(RenderChars[k]))
        => C17_MatchOverlay

\* The line 1 SUB 1 drawn with match_segment = [0, 1): the digit in column 2
\* is shown on the match background.
C17_ControlAtEnd ==
    /\ drawn.done
    /\ RenderChars = <<49, 26, 49>>
    /\ drawn.offset = 0 /\ drawn.max_len = 3
    /\ drawn.segment = Segment(0, 1)
    /\ MatchBackground(NthWritten(3))

\* A call has returned for a sequence that starts with ESC, and no read of
\* it failed.
EscSequence ==
    key # NoKey /\ seq # <<>> /\ seq[1] = 27 /\ IoError \notin Reads

\* The source had no byte for a read after ESC.
Incomplete == \E k \in 2..Len(seq) : seq[k] \in {NoByte, EndOfStream}

\* An incomplete or unrecognized escape sequence gives Key::Escape and no
\* error.
C12_DegradesToEscape ==
    EscSequence =>
        /\ key # ReadError
        /\ Incomplete => key = Escape
        /\ ~Incomplete /\ ElidingTable(seq) = Escape => key = Escape

\* Editor::run processes Key::Escape: the loop goes on and rows, cursor,
\* dirty and n_bytes are as before.
C12_EscapeStep ==
    pc = "done" /\ key = Escape /\ pc' # "done" =>
        pc' = "idle" /\ UNCHANGED <<rows, cursor, dirty, n_bytes>>

\* C12: an incomplete escape sequence (no byte where the decoder expects
\* the next byte after ESC) or an unrecognized one is not an error:
\* loop_until_keypress returns Key::Escape, and processing Key::Escape in
\* edit mode leaves rows, cursor, dirty flag and byte count unchanged.
C12_EscapeIsNoOp == [](C12_DegradesToEscape) /\ [][C12_EscapeStep]_vars

\* The Escape of an incomplete sequence has been processed in a document
\* with unsaved bytes and the cursor behind them.
C12_Witness ==
    /\ pc = "idle"
    /\ key = Escape
    /\ Incomplete
    /\ dirty /\ n_bytes > 0 /\ cursor.x > 0

\* ------------------------------------------------------------------ C21
\* C21: every iteration of the tokenizer loop strictly increases the number
\* of classified bytes, for every line, incoming state and syntax
\* configuration a configuration file can produce, empty comment tokens and
\* empty block delimiters included.
C21_StepClassifies ==
    [][ret' = Unset => Len(rows'[1].hl) > Len(rows[1].hl)]_vars

\* ------------------------------------------------------------------ C27
\* The class the tokenizer gives a byte at which, in Normal state, a string
\* quote, a line-comment token or a block start delimiter begins; "Normal"
\* when none does.
OpenerClass(line, i, conf) ==
    IF \E k \in DOMAIN conf.sl_comment_start :
          find_str(line, i, conf.sl_comment_start[k])
    THEN "Comment"
    ELSE IF ml_fires(line, i, Normal, ml_table(conf)[1]) THEN "MlComment"
    ELSE IF ml_fires(line, i, Normal, ml_table(conf)[2]) THEN "MlString"
    ELSE IF \E k \in DOMAIN conf.sl_string_quotes :
               conf.sl_string_quotes[k] = line[i + 1]
    THEN "String"
    ELSE "Normal"

\* C27: after a keyword that starts the line has been classified, exactly
\* its bytes have the keyword's class and tokenization resumes at the byte
\* after it under the full priority order: a string quote, a comment token
\* or a block delimiter that immediately follows the keyword is recognized.
C27_ResumesAfterKeyword ==
    Updated /\ arg_state = Normal =>
        \A k \in DOMAIN syntax.keywords :
            \A j \in DOMAIN syntax.keywords[k][2] :
                LET kw == syntax.keywords[k][2][j]
                    n == Len(kw)
                IN  /\ find_str(Row1.render, 0, kw)
                    /\ s_filter(Row1.render, 0, kw)
                    /\ n < Len(Row1.render)
                    /\ OpenerClass(Row1.render, n, syntax) # "Normal"
                    => /\ \A q \in 1..n : Row1.hl[q] = syntax.keywords[k][1]
                       /\ Row1.hl[n + 1] = OpenerClass(Row1.render, n, syntax)

\* ------------------------------------------------------------------ C28
\* The line being tokenized, the index of the byte 'syntax_loop is at, and
\* whether an iteration is about to run.
Line == rows[1].render
At == Len(rows[1].hl)
InLoop == ret = Unset /\ At < Len(Line)

\* Byte i (0-based) of the line lies in an occurrence of the token t.
Within(i, t) ==
    \E p \in 0..i : find_str(Line, p, t) /\ i < p + Len(t)

\* The line-comment tokens and the block delimiters of the configuration.
CommentTokens == {syntax.sl_comment_start[k] : k \in DOMAIN syntax.sl_comment_start}
BlockDelims ==
    UNION {{e.delims[1][1], e.delims[1][2]} : e \in BlockRows(syntax)}

\* A line-comment token, a string quote, a digit or a keyword begins at
\* byte i.
TokenBegins(i) ==
    \/ \E t \in CommentTokens : find_str(Line, i, t)
    \/ \E k \in DOMAIN syntax.sl_string_quotes :
          syntax.sl_string_quotes[k] = Line[i + 1]
    \/ is_ascii_digit(Line[i + 1])
    \/ \E k \in DOMAIN syntax.keywords :
          \E j \in DOMAIN syntax.keywords[k][2] :
             find_str(Line, i, syntax.keywords[k][2][j])

\* The iteration classifies what it classifies with the class cls and
\* leaves the state as it is.
StaysWith(cls) ==
    /\ loop_state' = loop_state
    /\ \A k \in (At + 1)..Len(rows'[1].hl) : rows'[1].hl[k] = cls

\* Inside a single-line string the bytes of the comment tokens and block
\* delimiters in Tokens are classified String and the state is unchanged.
StringHides(Tokens) ==
    InLoop /\ loop_state.t = "String" /\ (\E t \in Tokens : Within(At, t))
        => StaysWith("String")

\* Inside the block construct e, a byte at which a comment token, a string
\* quote, a digit or a keyword begins, and at which Ends(e) is false, gets
\* the block's class and the state is unchanged.
BlockHides(e, ends) ==
    InLoop /\ loop_state = e.mstate /\ TokenBegins(At) /\ ~ends
        => StaysWith(e.mtype) /\ Len(rows'[1].hl) = At + 1

\* Only the end delimiter of the block construct e leaves it.
OnlyEndLeaves(e) ==
    InLoop /\ loop_state = e.mstate /\ loop_state' # loop_state
        => find_str(Line, At, e.delims[1][2]) /\ loop_state' = Normal

\* C28: first match wins by state. Inside a single-line string a
\* line-comment token or block delimiter is classified String and leaves the
\* state unchanged; inside a block comment or block string a line-comment
\* token, a string quote, a digit or a keyword gets the block class and
\* leaves the state unchanged; only the construct's own end delimiter leaves
\* the block.
C28_FirstMatchByState ==
    [][/\ StringHides(CommentTokens \cup BlockDelims)
       /\ \A e \in BlockRows(syntax) : BlockHides(e, FALSE) /\ OnlyEndLeaves(e)
      ]_vars

\* C28 as the code has it: the same, for the comment tokens and block
\* delimiters that do not contain the quote that opened the string, and for
\* the bytes in a block at which the block's own end delimiter does not
\* begin.
C28_FirstMatchUnlessClosing ==
    [][/\ StringHides({t \in CommentTokens \cup BlockDelims :
                          \A k \in DOMAIN t : t[k] # loop_state.q})
       /\ \A e \in BlockRows(syntax) :
             /\ BlockHides(e, find_str(Line, At, e.delims[1][2]))
             /\ OnlyEndLeaves(e)
      ]_vars

\* The tokenizer, entered in a block comment, has classified a string quote
\* and a line-comment token that follows it with the block's class and is
\* still in the block; or, inside a string, it has classified a line-comment
\* token as String.
C28_Witness ==
    /\ ret = Unset /\ syntax = ConfC
    /\ \/ /\ arg_state = MultiLineComment /\ loop_state = MultiLineComment
          /\ find_str(Line, 0, <<34, 47, 47>>)
          /\ rows[1].hl = <<"MlComment", "MlComment", "MlComment">>
       \/ /\ arg_state = Normal /\ loop_state = StringState(34)
          /\ find_str(Line, 0, <<34, 47, 47>>)
          /\ rows[1].hl = <<"String", "String", "String">>

\* ------------------------------------------------------------------ C29
\* The iteration classifies n bytes as String and leaves the state st.
StringStep(n, st) ==
    /\ rows'[1].hl = rows[1].hl \o Rep("String", n)
    /\ loop_state' = st

\* C29: inside a single-line string opened with quote q, a backslash that
\* is not the last byte of the line is classified String together with the
\* byte after it, which is not examined (an escaped q does not close the
\* string); an unescaped q is classified String and closes the string; any
\* other byte, another configured quote character included, is classified
\* String and leaves the string open.
C29_StringEscapes ==
    [][InLoop /\ loop_state.t = "String" =>
          LET c == Line[At + 1]
          IN  IF c = loop_state.q THEN StringStep(1, Normal)
              ELSE IF c = 92 /\ At + 1 < Len(Line)
              THEN StringStep(2, loop_state)
              ELSE StringStep(1, loop_state)
      ]_vars

\* A string opened with " holds an escaped ", which did not close it, and
\* then a ', which did not close it either.
C29_Witness ==
    /\ ret = Unset /\ arg_state = Normal
    /\ Line = <<34, 92, 34, 39>>
    /\ rows[1].hl = <<"String", "String", "String", "String">>
    /\ loop_state = StringState(34)

\* ------------------------------------------------------------------ C30
\* The byte at At is an ASCII digit at the start of the line or after a
\* separator, or the byte before it was classified Number and it is not a
\* separator.
NumberByte ==
    \/ is_ascii_digit(Line[At + 1]) /\ (At = 0 \/ is_sep(Line[At]))
    \/ At > 0 /\ rows[1].hl[At] = "Number" /\ ~is_sep(Line[At + 1])

C23_ByteCount == n_bytes = sum_len(rows)

\* ------------------------------------------------------------------ C24
\* The step completes the GoTo prompt (Enter) with a buffer that parses as
\* a line number greater than the number of rows.
GoToBeyondEnd ==
    /\ prompt_mode.mode = "GoTo" /\ key' = Char(13) /\ prompt_mode' = NoPrompt
    /\ parse(prompt_mode.buffer).ok
    /\ parse(prompt_mode.buffer).v > Len(rows)

\* C24: completing the GoTo prompt with a line number greater than the
\* number of rows places the cursor on the last row: cursor.y is
\* rows.len() - 1.
C24_GoToLastRow ==
    [][GoToBeyondEnd => cursor'.y = Len(rows') - 1]_vars

\* ------------------------------------------------------------------ C22
\* The rows (counted from 0) whose match_segment is set.
Matched == {i \in 0..(Len(rows) - 1) : rows[i + 1].match_segment.some}

FindCall == prompt_mode.mode = "Find" /\ prompt_mode'.mode = "Find"

\* The arguments of that call and what it returned.
Query == prompt_mode'.buffer
Keeps == key' \in {Arrow("Right"), Arrow("Down"), Arrow("Left"), Arrow("Up"),
                   Char(ctrl_key(70))}
LastMatch == IF Keeps THEN prompt_mode.last_match ELSE None
Forward == key' \notin {Arrow("Left"), Arrow("Up")}
Found == prompt_mode'.last_match

\* Row i (counted from 0) as find received it: the overlay of the previous
\* match is already gone.
Received(i) == [rows[i + 1] EXCEPT !.match_segment = NoSegment]

\* The bytes (counted from 0) of row i where an occurrence of the query
\* begins.
Occurrences(i) ==
    {c \in 0..(Len(rows[i + 1].chars) - Len(Query)) :
        SubSeq(rows[i + 1].chars, c + 1, c + Len(Query)) = Query}
FirstOccurrence(i) ==
    CHOOSE c \in Occurrences(i) : \A d \in Occurrences(i) : c <= d

\* The j-th row visited (j from 1) when the rows are gone through
\* cyclically from just after last_match in the direction of the search,
\* and from the first row for a forward search without a last match.
Visit(j) ==
    IF LastMatch.some
    THEN IF Forward THEN (LastMatch.v + j) % Len(rows)
         ELSE (LastMatch.v + j * (Len(rows) - 1)) % Len(rows)
    ELSE j - 1

\* C25: find visits the rows cyclically, starting just after last_match in
\* the given direction (from the first row when last_match is None and the
\* search goes forward), and returns the first visited row containing the
\* query; the cursor goes to the first occurrence in that row and the row's
\* match_segment becomes the columns of that occurrence. It returns None
\* exactly when no row contains the query, and then the cursor and every
\* row are left as they were.
C25_FindVisitsCyclically ==
    [][FindCall =>
        /\ Len(rows') = Len(rows)
        /\ Found = None <=> \A i \in 0..(Len(rows) - 1) : Occurrences(i) = {}
        /\ Found = None =>
              /\ cursor' = cursor
              /\ \A i \in 0..(Len(rows) - 1) : rows'[i + 1] = Received(i)
        /\ Found.some =>
              /\ Occurrences(Found.v) # {}
              /\ (LastMatch.some \/ Forward) =>
                    \E j \in 1..Len(rows) :
                        /\ Visit(j) = Found.v
                        /\ \A k \in 1..(j - 1) : Occurrences(Visit(k)) = {}
              /\ cursor'.x = FirstOccurrence(Found.v)
              /\ cursor'.y = Found.v
              /\ rows'[Found.v + 1] =
                    [rows[Found.v + 1] EXCEPT !.match_segment =
                        Segment(rows[Found.v + 1].cx2rx[
                                    FirstOccurrence(Found.v) + 1],
                                rows[Found.v + 1].cx2rx[
                                    FirstOccurrence(Found.v) + Len(Query) + 1])]
              /\ \A i \in 0..(Len(rows) - 1) \ {Found.v} :
                    rows'[i + 1] = Received(i)]_vars

\* Arrow Down in the Find prompt has gone round from the last row holding
\* the query to the first one, where the match lies behind a tab.
C25_Witness ==
    /\ prompt_mode.mode = "Find" /\ key = Arrow("Down")
    /\ prompt_mode.buffer = <<49>>
    /\ prompt_mode.last_match = Some(0)
    /\ Len(rows) = 2
    /\ rows[1].chars = <<49>> /\ rows[2].chars = <<49>>
    /\ cursor.y = 0

\* The Find prompt has matched a query behind a tab: the match_segment
\* starts at a column beyond the byte position of the cursor.
C25_BehindTab ==
    /\ prompt_mode.mode = "Find" /\ prompt_mode.last_match.some
    /\ rows[cursor.y + 1].match_segment.some
    /\ rows[cursor.y + 1].match_segment.start > cursor.x

\* ------------------------------------------------------------------ C26
RECURSIVE Segments(_)
\* The newline-separated segments of a file: one more than it has newlines,
\* so that the last one is empty when the file is empty or ends with a
\* newline.
Segments(bytes) ==
    IF \A i \in DOMAIN bytes : bytes[i] # 10 THEN <<bytes>>
    ELSE LET i == CHOOSE e \in DOMAIN bytes :
                      bytes[e] = 10 /\ \A f \in 1..(e - 1) : bytes[f] # 10
         IN  <<SubSeq(bytes, 1, i - 1)>> \o
             Segments(SubSeq(bytes, i + 1, Len(bytes)))

\* C26: loading yields one row per newline-separated segment of the file,
\* with a final empty row only if the file is empty or its last byte is a
\* newline; so loading a file that save wrote gives back the contents of the
\* rows that were saved.
C26_LoadInvertsSave ==
    [][RunFile /\ disk.exists =>
        /\ contents(rows') = Segments(disk.bytes)
        /\ disk.saved.some => contents(rows') = disk.saved.v]_vars

\* ------------------------------------------------------------------ C31
\* Ctrl-Q is pressed in edit mode.
QuitPressed == prompt_mode = NoPrompt /\ key' = Char(EXIT) /\ pc = "idle"

\* C31: with quit_times = N configured (any N >= 0) and unsaved changes the
\* editor exits on the max(N, 1)-th consecutive Ctrl-Q and not before, the
\* presses so far being N less the remaining count; any other key in edit
\* mode sets the remaining count back to N; without unsaved changes one
\* Ctrl-Q exits; the remaining count never goes below 0.
C31_QuitCountdown ==
    [][/\ pc' # "panic"
       /\ quit_times' \in 0..quit_conf
       /\ QuitPressed /\ dirty =>
             (pc' = "quit" <=>
                 quit_conf - quit_times + 1 =
                     (IF quit_conf >= 1 THEN quit_conf ELSE 1))
       /\ QuitPressed /\ ~dirty => pc' = "quit"
       /\ prompt_mode = NoPrompt /\ key' # Char(EXIT) =>
             quit_times' = quit_conf]_vars

\* ------------------------------------------------------------------ C32
\* A step of the editor on its document, the file not being opened anew:
\* a key press or a save.
EditorStep == ~RunFile /\ pc = "idle" /\ pc' # "panic"

\* Ctrl-S has written the file.
Saved == key' = Char(SAVE) /\ ~disk'.err

\* C32: the dirty flag records modification. When a key press changes the
\* contents of the rows of a document that has a file, dirty is true
\* afterwards; it stays true until a save succeeds, and a save that fails
\* does not clear it.
C32_DirtyRecordsModification ==
    [][EditorStep =>
        /\ contents(rows') # contents(rows) /\ file_name => dirty'
        /\ dirty /\ ~Saved => dirty']_vars

\* ------------------------------------------------------------------ C33
\* The editor draws for another number of rows than the window has.
Stale == screen_rows # usable_rows(window)

\* No resize is lost while the editor runs: a window the editor has not
\* adapted to is one whose signal is still flagged or is being handled, and
\* the update takes the size the window has then.
ResizeKept ==
    /\ [](Running /\ Stale => wsc \/ pc = "update")
    /\ [][pc = "update" /\ pc' = "read" =>
              screen_rows' = usable_rows(window)]_vars

\* C33 as stated: no window-resize notification is lost, and every time the
\* flag is set the key loop performs a window-size update and a refresh on
\* a later iteration.
C33_ResizeAlwaysHandled == ResizeKept /\ (wsc ~> pc = "update")

\* C33, amended: no window-resize notification is lost, and every time the
\* flag is set the key loop performs a window-size update and a refresh on
\* a later iteration unless the editor exits before that iteration.
C33_ResizeHandledWhileRunning ==
    ResizeKept /\ (wsc ~> (pc = "update" \/ ~Running))

\* The window has been resized and the editor has adapted to it.
C33_Witness ==
    /\ pc = "read" /\ ~wsc
    /\ window # WindowRows
    /\ screen_rows = usable_rows(window)

\* ------------------------------------------------------------------ C34
\* C34: after any sequence of editing operations every row's highlight and
\* hl_state are what update_all_rows computes by retokenizing the whole
\* document from the first row in state Normal; no row after a newly
\* inserted row keeps stale highlighting.
C34_HighlightUpToDate ==
    \A k \in DOMAIN rows :
        /\ rows[k].hl = update_all_rows(rows, syntax, tab_stop)[k].hl
        /\ rows[k].hl_state =
              update_all_rows(rows, syntax, tab_stop)[k].hl_state

\* ---------------------------------------------------------------------
\* loop_until_keypress has just returned a key.
Returns == pc # "done" /\ pc' = "done"

\* C35. Every byte delivered by the terminal is consumed by exactly one key
\* decode, in order: when loop_until_keypress returns a key, the BufReader
\* of the call, which is dropped there, holds no byte that it has read from
\* the terminal and not handed to the decoder.
C35_NoByteDropped == [][Returns => buffered' = 0]_vars

\* ---------------------------------------------------------------------
\* C36. After every key press, in a window of any size, the cursor is in
\* the document: cursor.y <= rows.len() and cursor.x <= the length of the
\* row at cursor.y (0 after the last row); and no cursor computation has
\* overflowed or indexed out of bounds (the thread has not panicked).
C36_CursorInDocument ==
    /\ pc # "panic"
    /\ cursor.y <= Len(rows)
    /\ cursor.x <= current_row_len(Ed)

\* ---------------------------------------------------------------------
\* Every row is valid UTF-8.
ValidRows == \A k \in DOMAIN rows : WellFormed(rows[k].chars)

\* cursor.x is where a character of the current row starts, or the length
\* of the row.
AtCharacter ==
    IF cursor.y < Len(rows)
    THEN cursor.x \in char_starts(rows[cursor.y + 1].chars, 1)
                        \cup {Len(rows[cursor.y + 1].chars)}
    ELSE cursor.x = 0

\* A movement key has been handled in edit mode.
Moved == pc = "idle" /\ pc' = "idle" /\ key' \in MovementKeys

\* C37. On rows of valid UTF-8 a movement key takes the cursor from the
\* start of a character (or the end of the row) to the start of a character
\* (or the end of the row): it never rests inside a multi-byte character.
C37_CursorAtCharacter ==
    [][ValidRows /\ AtCharacter /\ Moved => AtCharacter']_vars

\* ---------------------------------------------------------------------
\* Backspace or the arrow left has been pressed in edit mode, the cursor
\* being inside a row and not at its start.
SteppedBack ==
    /\ pc = "idle"
    /\ cursor.y < Len(rows) /\ cursor.x > 0
    /\ key' \in {Char(127), Arrow("Left")}

\* The offset at which the character that ends at (or spans) offset x of
\* bytes starts, cursor.x > 0.
start_before(bytes, x) ==
    CHOOSE b \in char_starts(bytes, 1) :
        b < x /\ \A c \in char_starts(bytes, 1) : c < x => c <= b

\* C38. With cursor.x > 0, delete_char and a Left move compute
\* cx2rx[cursor.x] - 1 without underflow (the thread does not panic) and
\* leave cursor.x at the start of the character that ended at the cursor;
\* delete_char removes the bytes of that character and no other.
C38_StepsOverOneCharacter ==
    [][SteppedBack =>
          /\ pc' = "idle"
          /\ cursor'.y = cursor.y
          /\ cursor'.x = start_before(rows[cursor.y + 1].chars, cursor.x)
          /\ key' = Char(127) =>
                 rows'[cursor.y + 1].chars =
                    SubSeq(rows[cursor.y + 1].chars, 1, cursor'.x) \o
                    SubSeq(rows[cursor.y + 1].chars, cursor.x + 1,
                           Len(rows[cursor.y + 1].chars))]_vars

\* ---------------------------------------------------------------------
\* Enter has been pressed in the GoTo prompt, whose buffer holds a `:`.
GoToColumn ==
    /\ pc = "idle"
    /\ prompt_mode.mode = "GoTo"
    /\ first_colon(prompt_mode.buffer) > 0
    /\ key' = Char(13)

\* C39. Completing the GoTo prompt with line:column completes for any
\* column number (nothing outside rx2cx is read, so the thread does not
\* panic) and leaves cursor.x at a byte offset of the row the cursor is on.
C39_GoToColumnCompletes ==
    [][GoToColumn =>
          /\ pc' = "idle"
          /\ cursor'.x <= IF cursor'.y < Len(rows)
                          THEN Len(rows[cursor'.y + 1].chars) ELSE 0]_vars

\* ---------------------------------------------------------------------
RECURSIVE start_offsets(_, _)
\* The byte offsets (0-based) at which the characters from byte i (1-based)
\* on start, in order.
start_offsets(bytes, i) ==
    IF i > Len(bytes) THEN <<>>
    ELSE <<i - 1>> \o start_offsets(bytes, i + next_char(bytes, i).n)

\* For every character of render, hl at the byte index where it starts.
hl_of_chars(row) ==
    [k \in 1..Len(start_offsets(row.render, 1)) |->
        row.hl[start_offsets(row.render, 1)[k] + 1]]

\* C40. Row::draw colors every drawn character with the class of its own
\* bytes: what draw writes is what it writes when each character of render
\* is paired with hl at the byte index where the character starts.
C40_ClassOfOwnBytes ==
    drawn.done =>
        drawn.out = draw_chars(code_points(Row1.render, 1), hl_of_chars(Row1),
                               drawn.offset, drawn.max_len, drawn.segment)
====
